---------------------------- MODULE Spec2Model ----------------------------
(***************************************************************************)
(* combine_pvalues_discrete: the calibrated estimator (tools.counted_p),   *)
(* the null-distribution model (pdist.PDist), the combinable test result   *)
(* (ctr.CTR) and the combination engine (ctr.combine).                     *)
(*                                                                         *)
(* Numbers.  A float x is modelled exactly as the real                     *)
(*     x = n/d + f * 1e-14                                                 *)
(* a rational "coarse" part n/d (d > 0) plus a "fine" offset of f units of *)
(* 1e-14.  Fine offsets stay far below the spacing of the coarse parts, so *)
(* the order of two numbers is the order of the coarse parts and, when     *)
(* these agree, of the fine offsets.  The tolerance 1e-10 of the source is *)
(* Tol fine units.  NaN is a number with the flag nan set; every           *)
(* comparison with it is false.                                            *)
(***************************************************************************)
EXTENDS Integers, Sequences, FiniteSets, TLC

VARIABLES
    pc,          \* position of the call under way: "call", then "done"
    orig_stat,   \* counted_p: the observed statistic
    null_stats,  \* counted_p: the null statistics
    atol,        \* the absolute tolerance the caller asks counted_p for, in
                 \* units of 1e-14 (combine's atol, ctr.py:430; rtol is 0)
    p,           \* CTR.__init__: the argument p
    all_ps,      \* PDist.__init__ / CTR.__init__: the argument ps / all_ps as passed
    caller_ps,   \* the elements of the caller's collection behind that argument
    self,        \* the object under construction / constructed (PDist or CTR)
    ctrs,        \* combine: the list of test results
    method,      \* combine: the method name
    weights,     \* combine: the weights; weights=None is NoWeights
    alternative, \* combine: the alternative
    sampling_method, \* combine: "proportional" or "stochastic"
    n_samples,   \* combine: the number of null samples
    statistic,   \* combine: the statistic the method resolves to
    data,        \* apply_statistics: the data the statistic is applied to
    data_null,   \* combine: the null data, one column per sample
    generator,   \* the state of the generator the caller passes as RNG, None
                 \* if the caller passes none
    earlier,     \* what an earlier call with the same arguments returned
    other,       \* the right operand of a comparison or product of distributions
    third,       \* the third operand of a product of three distributions
    tie,         \* searchsorted_closest: the side that the rounding of the two
                 \* distances favours when a value is halfway between two points
    factory,     \* the name of the test-result factory called
    xy,          \* what the factory reads of the samples x, y passed to it
    loop_i,      \* boschloo_exact: the index i of the loop that unifies close p values
    logps,       \* LogPDist.__init__: the caller's list passed as logps
    logprobs,    \* LogPDist.__init__: the argument probs
    RNG,         \* number of calls made on the random generator
    result,      \* the value returned by the call
    error        \* the exception raised by the call, "none" if none

counted_args == << orig_stat, null_stats, atol >>
combine_args == << ctrs, method, weights, alternative, sampling_method, n_samples >>

combine_locals == << statistic, data, data_null >>

operands == << other, third, tie >>

factory_args == << factory, xy, loop_i >>

logp_args == << logps, logprobs >>

vars == << pc, counted_args, p, all_ps, caller_ps, self, combine_args,
           combine_locals, operands, factory_args, logp_args, generator, earlier,
           RNG, result, error >>

None == "None"

\* weights=None (a sequence, to be comparable with the weights given)
NoWeights == << >>

----------------------------------------------------------------------------
(* Bounds of the model *)

\* coarse grid: the inputs' coarse parts are multiples of 1/Den
Den == 4
\* longest support passed to a constructor
MaxSupport == 3
\* number of null statistics handed to counted_p is 1..MaxNull
MaxNull == 3
\* statistics handed to counted_p are the halves 0/2 .. MaxStat/2
MaxStat == 4

\* longest support passed to CTR
MaxAllPs == 2

\* longest list of test results handed to combine
MaxCtrs == 2
\* n_samples
MaxSamples == 1

\* number of states of a generator
MaxSeed == 4

\* the small samples handed to the factories have 1..MaxSampleSize values
MaxSampleSize == 3

\* longest list of log-p values handed to LogPDist
MaxLogPs == 3

\* 1e-10 in fine units of 1e-14
Tol == 10000

----------------------------------------------------------------------------
(* Numbers *)

Num(n, d, f) == [nan |-> FALSE, n |-> n, d |-> d, f |-> f]
NaN          == [nan |-> TRUE,  n |-> 0, d |-> 1, f |-> 0]
Zero         == Num(0, 1, 0)
One          == Num(1, 1, 0)

\* sign of the coarse difference x - y, then of the fine difference; two
\* infinities (d = 0) compare by their signs
Cmp(x, y) ==
    LET sgn(k) == IF k > 0 THEN 1 ELSE IF k < 0 THEN -1 ELSE 0
        c == IF x.d = 0 /\ y.d = 0 THEN sgn(x.n) - sgn(y.n)
             ELSE x.n * y.d - y.n * x.d
    IN  IF c # 0 THEN (IF c > 0 THEN 1 ELSE -1)
        ELSE IF x.f > y.f THEN 1 ELSE IF x.f < y.f THEN -1 ELSE 0

Eq(x, y) == ~x.nan /\ ~y.nan /\ Cmp(x, y) = 0
Lt(x, y) == ~x.nan /\ ~y.nan /\ Cmp(x, y) < 0
Le(x, y) == ~x.nan /\ ~y.nan /\ Cmp(x, y) <= 0
Gt(x, y) == Lt(y, x)
Ge(x, y) == Le(y, x)

RECURSIVE GCD(_, _)
GCD(a, b) == IF b = 0 THEN a ELSE GCD(b, a % b)

\* n/d in lowest terms (d >= 0; n/0 is +-inf)
Frac(n, d, f) ==
    LET g == GCD(IF n < 0 THEN -n ELSE n, d)
    IN  IF g = 0 THEN NaN ELSE Num(n \div g, d \div g, f)

Add(x, y) == IF x.nan \/ y.nan THEN NaN
             ELSE IF x.d = 0 /\ y.d = 0 THEN (IF x.n * y.n > 0 THEN x ELSE NaN)
             ELSE IF x.d = y.d THEN Num(x.n + y.n, x.d, x.f + y.f)
             ELSE Frac(x.n * y.d + y.n * x.d, x.d * y.d, x.f + y.f)
Neg(x)    == IF x.nan THEN NaN ELSE Num(-x.n, x.d, -x.f)
Sub(x, y) == Add(x, Neg(y))
Abs(x)    == IF x.nan THEN NaN ELSE IF Cmp(x, Zero) < 0 THEN Neg(x) ELSE x

\* x*k and x/k for an integer k > 0
MulInt(x, k) == IF x.nan THEN NaN ELSE Num(x.n * k, x.d, x.f * k)
DivInt(x, k) == IF x.nan THEN NaN ELSE Frac(x.n, x.d * k, 0)


RECURSIVE SumSeq(_)
SumSeq(s) == IF s = << >> THEN Zero ELSE Add(Head(s), SumSeq(Tail(s)))

----------------------------------------------------------------------------
(* tools.py *)

\* len(x)==0, or x is None
is_empty(x) == x.kind = None \/ Len(x.vals) = 0

\* np.sum of a boolean array
RECURSIVE np_sum(_)
np_sum(bools) ==
    IF bools = << >> THEN 0
    ELSE (IF Head(bools) THEN 1 ELSE 0) + np_sum(Tail(bools))

counted_p_strict(orig, nulls) ==
    LET total == Len(nulls) + 1
        count == np_sum([i \in 1..Len(nulls) |-> Gt(orig, nulls[i])])
    IN  Num(count + 1, total, 0)

\* tools.counted_p: (count+1)/total, count = np.sum(orig_stat >= null_stats).
\* It has no tolerance parameter: the rtol and atol that combine names in its
\* call (ctr.py:430) have no effect on the count.
counted_p(orig, nulls) ==
    LET total == Len(nulls) + 1
        count == np_sum([i \in 1..Len(nulls) |-> Ge(orig, nulls[i])])
    IN  Num(count + 1, total, 0)

\* namedtuple (pvalue, std)
Combined_P_Value(pvalue, std) == [pvalue |-> pvalue, std |-> std]

----------------------------------------------------------------------------
(* pdist.py *)

\* insert x into the ascending sequence s
RECURSIVE Insert(_, _)
Insert(x, s) ==
    IF s = << >> THEN << x >>
    ELSE IF Le(x, Head(s)) THEN << x >> \o s
    ELSE << Head(s) >> \o Insert(x, Tail(s))

\* ndarray.sort(): ascending
RECURSIVE Sort(_)
Sort(s) == IF s = << >> THEN << >> ELSE Insert(Head(s), Sort(Tail(s)))

\* abs(x-1) < 1e-10
AlmostOne(x) == Lt(Abs(Sub(x, One)), Num(0, 1, Tol))

SetLast(s, x) == [s EXCEPT ![Len(s)] = x]

\* PDist.__init__.  ps is the caller's collection [kind, vals]: None, a list
\* (np.atleast_1d copies it) or an ndarray (np.atleast_1d returns the very
\* array, which is then sorted and written in place).  Returns the stored
\* self.ps, the exception raised, and the caller's collection afterwards.
PDist_init(ps) ==
    LET sorted == IF is_empty(ps) THEN << >> ELSE Sort(ps.vals)
        k      == Len(sorted)
        alias  == ps.kind = "ndarray"
        caller == IF alias THEN sorted ELSE ps.vals
    IN  IF k = 0
        THEN [error |-> "none", ps |-> sorted, caller |-> caller]
        ELSE IF ~(Lt(Zero, sorted[1]) /\ AlmostOne(sorted[k]))
        THEN [error |-> "ValueError", ps |-> sorted, caller |-> caller]
        ELSE IF Ge(sorted[k], Num(1, 1, Tol)) /\ k > 1 /\ Ge(sorted[k-1], One)
        THEN [error |-> "ValueError", ps |-> sorted, caller |-> caller]
        ELSE [error |-> "none", ps |-> SetLast(sorted, One),
              caller |-> IF alias THEN SetLast(sorted, One) ELSE caller]

\* PDist.continuous
continuous(ps) == Len(ps) = 0

probs_no_prepend(ps) ==
    [i \in 1..Len(ps) |-> IF i = 1 THEN Zero ELSE Sub(ps[i], ps[i-1])]

\* PDist.probs: np.diff(self.ps, prepend=0)
probs(ps) ==
    [i \in 1..Len(ps) |-> IF i = 1 THEN Sub(ps[1], Zero) ELSE Sub(ps[i], ps[i-1])]

\* PDist.complement: 1-p if continuous, else the mass strictly above p
complement(ps, x) ==
    IF continuous(ps) THEN Sub(One, x)
    ELSE SumSeq([i \in 1..Len(ps) |->
                    IF Gt(ps[i], x) THEN probs(ps)[i] ELSE Zero])

\* PDist.__eq__: zip(self, other) stops at the end of the shorter operand
PDist_eq(ps, other_ps) ==
    IF continuous(ps) THEN continuous(other_ps)
    ELSE \A i \in 1..Len(ps) : i <= Len(other_ps) => Eq(ps[i], other_ps[i])

----------------------------------------------------------------------------
(* ctr.py: CTR *)

\* p in all_ps
In(x, s) == \E i \in 1..Len(s) : Eq(s[i], x)

\* np.argmin(np.abs(all_ps-p)): the first index of the smallest distance
argmin_dist(arr, x) ==
    CHOOSE i \in 1..Len(arr) :
        /\ \A j \in 1..Len(arr) : Le(Abs(Sub(arr[i], x)), Abs(Sub(arr[j], x)))
        /\ \A j \in 1..(i-1)    : Lt(Abs(Sub(arr[i], x)), Abs(Sub(arr[j], x)))

\* dx/x > 1e-10 for x # 0, in exact arithmetic: dx > 1e-10*x when x > 0 and
\* dx < 1e-10*x when x < 0.  A coarse difference decides by its sign; a fine
\* difference dx.f is compared with Tol * x.n/x.d, the fine offset of x
\* breaking the tie.
RelGt(dx, x) ==
    LET L  == dx.f * x.d
        R  == Tol * x.n
        gt == IF dx.n # 0 THEN dx.n > 0 ELSE L > R \/ (L = R /\ x.f < 0)
        lt == IF dx.n # 0 THEN dx.n < 0 ELSE L < R \/ (L = R /\ x.f > 0)
    IN  IF Cmp(x, Zero) > 0 THEN gt ELSE lt

Raise(exc, caller) ==
    [error |-> exc, p |-> None, q |-> None, nulldist |-> None, caller |-> caller]

\* CTR.__init__(p, all_ps).  Returns the exception raised, the stored p, q and
\* nulldist (its ps), and the caller's collection afterwards.
CTR_init(x, support) ==
    IF Eq(x, Zero) THEN Raise("ValueError", support.vals)
    ELSE IF x.nan THEN Raise("ValueError", support.vals)
    ELSE
      LET snap    == ~is_empty(support) /\ ~In(x, support.vals)
          closest == support.vals[argmin_dist(support.vals, x)]
      IN  IF snap /\ RelGt(Sub(closest, x), x)
          THEN Raise("ValueError", support.vals)
          ELSE
            LET p1 == IF snap THEN closest ELSE x
                \* np.asarray(all_ps) hands PDist an ndarray
                nd == PDist_init([kind |-> IF snap THEN "ndarray" ELSE support.kind,
                                  vals |-> support.vals])
                caller == IF support.kind = "ndarray" THEN nd.caller
                          ELSE support.vals
            IN  IF nd.error # "none" THEN Raise(nd.error, caller)
                ELSE [error |-> "none", p |-> p1, q |-> complement(nd.ps, p1),
                      nulldist |-> nd.ps, caller |-> caller]

----------------------------------------------------------------------------
(* pdist.py: PDist.sample *)

\* Python's round() of x >= 0: to the nearest integer, a half to the even one
round(x) ==
    LET q == x.n \div x.d
        r == x.n % x.d
    IN  IF 2 * r < x.d THEN q
        ELSE IF 2 * r > x.d THEN q + 1
        ELSE IF x.f > 0 THEN q + 1
        ELSE IF x.f < 0 THEN q
        ELSE IF q % 2 = 0 THEN q ELSE q + 1

Bijections(S) == { f \in [1..Cardinality(S) -> S] :
                     \A i, j \in 1..Cardinality(S) : f[i] = f[j] => i = j }

\* what RNG.shuffle can make of the sequence s
Shuffles(s) == { [i \in 1..Len(s) |-> s[f[i]]] : f \in Bijections(1..Len(s)) }

\* numbers u of [0,1) that stand for the draws of RNG.uniform()
Uniform01 == { Zero, Num(Den - 1, Den, 0) }

\* values 1 - u, u in [0,1), that stand for the draws of 1-RNG.uniform()
UniformDraws == { Sub(One, u) : u \in Uniform01 }

\* what a slot of np.empty holds when it is never written
Unwritten == { Zero, NaN }

\* start of the run of the j-th visited support value: sum of prob*size before it
RECURSIVE RunStart(_, _, _)
RunStart(combos, j, size) ==
    IF j = 1 THEN Zero
    ELSE Add(RunStart(combos, j - 1, size), MulInt(combos[j-1][2], size))

RunEnd(combos, j, size) == Add(RunStart(combos, j, size), MulInt(combos[j][2], size))

Writers_end_exclusive_twice(combos, t, size) ==
    { j \in 1..Len(combos) :
        round(RunStart(combos, j, size)) <= t /\ t + 1 < round(RunEnd(combos, j, size)) }

\* the support values written to slot t (0-based) in visiting order:
\* result[ round(start) : round(end) ] = p
Writers(combos, t, size) ==
    { j \in 1..Len(combos) :
        round(RunStart(combos, j, size)) <= t /\ t < round(RunEnd(combos, j, size)) }

\* the arrays the loop over the shuffled combos can leave in result
Allocations(ps, size) ==
    LET zipped == [i \in 1..Len(ps) |-> << ps[i], probs(ps)[i] >>]
        slot(combos, t) ==
            IF Writers(combos, t, size) = {} THEN Unwritten
            ELSE { combos[CHOOSE j \in Writers(combos, t, size) :
                              \A l \in Writers(combos, t, size) : l <= j][1] }
    IN  UNION { { a \in [1..size -> UNION { slot(combos, t) : t \in 0..(size-1) }] :
                    \A i \in 1..size : a[i] \in slot(combos, i - 1) }
                : combos \in Shuffles(zipped) }

\* assert round(end) == size, for every visiting order
AssertionHolds(ps, size) ==
    LET zipped == [i \in 1..Len(ps) |-> << ps[i], probs(ps)[i] >>]
    IN  \A combos \in Shuffles(zipped) :
            round(RunEnd(combos, Len(combos), size)) = size

\* np.linspace(start, stop, num): num >= 1 evenly spaced numbers, the first
\* being start and, for num > 1, the last being stop
linspace(start, stop, num) ==
    [i \in 1..num |->
        IF num = 1 THEN start
        ELSE Add(start, MulInt(DivInt(Sub(stop, start), num - 1), i - 1))]

linspace_unpadded(size) == linspace(Zero, One, size)

\* np.linspace(pad, 1-pad, size) with pad = 1/(2*size)
linspace_padded(size) ==
    LET pad == Num(1, 2 * size, 0)
    IN  linspace(pad, Sub(One, pad), size)

\* PDist.sample: the exception it raises
sample_error(ps, size, smethod) ==
    IF smethod \notin {"stochastic", "proportional"} THEN "ValueError"
    ELSE IF smethod = "proportional" /\ ~continuous(ps) /\ ~AssertionHolds(ps, size)
    THEN "AssertionError"
    ELSE "none"

\* PDist.sample: the arrays it can return
sample(ps, size, smethod) ==
    IF smethod = "stochastic" THEN
        IF continuous(ps) THEN [1..size -> UniformDraws]
        ELSE [1..size -> { ps[i] : i \in { j \in 1..Len(ps) : Gt(probs(ps)[j], Zero) } }]
    ELSE IF continuous(ps) THEN Shuffles(linspace_padded(size))
    ELSE UNION { Shuffles(a) : a \in Allocations(ps, size) }

\* PDist.sample: the number of calls it makes on RNG
sample_calls(ps, smethod) ==
    IF smethod = "stochastic" THEN 1
    ELSE IF continuous(ps) THEN 1
    ELSE 2

\* the states of a generator, each a tuple of one word: a generator is a
\* deterministic machine that answers a call from its state and moves on to
\* the next state
Seeds == { << word >> : word \in 0..(MaxSeed - 1) }

\* the state of a generator after one call on it
advance(g) == << (3 * g[1] + 1) % MaxSeed >>

\* the state of a generator after calls calls on it
RECURSIVE advanced(_, _)
advanced(g, calls) == IF calls = 0 THEN g ELSE advanced(advance(g), calls - 1)

\* the r-th element of the finite set S in a fixed enumeration of it
RECURSIVE Nth(_, _)
Nth(S, r) ==
    LET x == CHOOSE y \in S : TRUE
    IN  IF r = 0 THEN x ELSE Nth(S \ {x}, r - 1)

\* what a call on a generator in state g returns, S being what it can return
Outcome(S, g) == Nth(S, g[1] % Cardinality(S))

\* the states np.random.default_rng() can start a new generator in
FreshSeeds == { << 0 >>, << 1 >> }

Allocated_values_in_stored_order(combos, size, mem) ==
    [i \in 1..size |->
        IF Writers(combos, i - 1, size) = {} THEN mem[i]
        ELSE Sort([j \in 1..Len(combos) |-> combos[j][1]])[
                 CHOOSE j \in Writers(combos, i - 1, size) :
                     \A l \in Writers(combos, i - 1, size) : l <= j]]

\* result after the loop over combos, mem being what np.empty found in memory
Allocated(combos, size, mem) ==
    [i \in 1..size |->
        IF Writers(combos, i - 1, size) = {} THEN mem[i]
        ELSE combos[CHOOSE j \in Writers(combos, i - 1, size) :
                        \A l \in Writers(combos, i - 1, size) : l <= j][1]]

\* PDist.sample(RNG=rng, size=size, method=smethod) when it raises nothing: the
\* array it returns and the state it leaves rng in.  fresh is the state of the
\* generator default_rng() makes when rng is None.
sample_from(ps, size, smethod, rng, fresh, mem) ==
    LET g0 == IF rng = None THEN fresh ELSE rng
        left(g) == IF rng = None THEN None ELSE g
        zipped == [i \in 1..Len(ps) |-> << ps[i], probs(ps)[i] >>]
        combos == Outcome(Shuffles(zipped), g0)
    IN  IF smethod = "stochastic" \/ continuous(ps)
        THEN [array |-> Outcome(sample(ps, size, smethod), g0),
              RNG |-> left(advance(g0))]
        ELSE [array |-> Outcome(Shuffles(Allocated(combos, size, mem)), advance(g0)),
              RNG |-> left(advance(advance(g0)))]

----------------------------------------------------------------------------
(* Arithmetic of the statistics.  Statistics are evaluated on numbers without *)
(* fine offsets.  A number with d = 0 is +inf (n > 0) or -inf (n < 0).        *)

\* x*y; inf*0 is NaN
Mul(x, y) ==
    IF x.nan \/ y.nan THEN NaN
    ELSE IF (x.n = 0 /\ y.d = 0) \/ (y.n = 0 /\ x.d = 0) THEN NaN
    ELSE Frac(x.n * y.n, x.d * y.d, 0)

\* x/y, as floats divide: x/0 is +-inf, 0/0 and inf/inf are NaN
Div(x, y) ==
    IF x.nan \/ y.nan THEN NaN
    ELSE IF (x.n = 0 /\ y.n = 0) \/ (x.d = 0 /\ y.d = 0) THEN NaN
    ELSE IF y.n < 0 THEN Frac(-(x.n * y.d), -(x.d * y.n), 0)
    ELSE Frac(x.n * y.d, x.d * y.n, 0)

\* np.minimum / np.min: NaN propagates
Minimum(x, y) == IF x.nan \/ y.nan THEN NaN ELSE IF Le(x, y) THEN x ELSE y

RECURSIVE MinSeq(_)
MinSeq(s) == IF Len(s) = 1 THEN s[1] ELSE Minimum(Head(s), MinSeq(Tail(s)))

(* A sum of logarithms ln(x1) + ... + ln(xk) is kept as its exponential, the  *)
(* product x1 * ... * xk: exp is strictly increasing, so every comparison of   *)
(* two such statistics is the comparison of the products.  ln of a negative    *)
(* number is NaN, ln(0) is -inf (the product 0), ln(inf) is +inf.              *)
ExpLn(x) == IF x.nan \/ x.n < 0 THEN NaN ELSE x

RECURSIVE ExpSumLn(_)
ExpSumLn(s) == IF s = << >> THEN One ELSE Mul(ExpLn(Head(s)), ExpSumLn(Tail(s)))

ExpNeg_sign_dropped(x) == x

\* exp(-ln(x)) = 1/x
ExpNeg(x) == IF x.nan THEN NaN ELSE Num(x.d, x.n, 0)

RECURSIVE Pow(_, _)
Pow(x, k) == IF k = 0 THEN One ELSE Mul(x, Pow(x, k - 1))

ExpDotLn_without_ln(w, s) == SumSeq([i \in 1..Len(s) |-> MulInt(s[i], w[i])])

\* exp(w.dot(ln(x)))
ExpDotLn(w, s) == ExpSumLn([i \in 1..Len(s) |-> Pow(ExpLn(s[i]), w[i])])

\* w.dot(x)
Dot(w, s) == SumSeq([i \in 1..Len(s) |-> MulInt(s[i], w[i])])

\* erfinv(y) for y = 0.1, 0.2, .. 0.9, in units of 1e-4
ErfinvTable == << 889, 1791, 2725, 3708, 4769, 5951, 7329, 9062, 11631 >>

\* erfinv(2*x-1) for x a multiple of 1/20: NaN outside [0,1], -inf at 0,
\* +inf at 1, odd about x = 1/2, and the tabulated value in between
erfinv_2p_1(x) ==
    IF x.nan THEN NaN
    ELSE LET j == IF (20 * x.n) % x.d = 0 THEN (20 * x.n) \div x.d - 10
                  ELSE CHOOSE i \in {} : TRUE
         IN  IF j < -10 \/ j > 10 THEN NaN
             ELSE IF j = 10 THEN Num(1, 0, 0)
             ELSE IF j = -10 THEN Num(-1, 0, 0)
             ELSE IF j = 0 THEN Zero
             ELSE IF j > 0 THEN Num(ErfinvTable[j], 10000, 0)
             ELSE Num(-ErfinvTable[-j], 10000, 0)

rankdata_by_position(s) == [i \in 1..Len(s) |-> i]

\* rankdata(p, method="ordinal"): ties are ranked in the order they occur
rankdata(s) ==
    [i \in 1..Len(s) |->
        1 + Cardinality({ j \in 1..Len(s) : Lt(s[j], s[i]) })
          + Cardinality({ j \in 1..(i-1)  : Eq(s[j], s[i]) })]

----------------------------------------------------------------------------
(* ctr.py: the combining statistics *)

\* the keys of combining_statistics
combining_statistics ==
    { <<m, "normal">> : m \in {"fisher", "pearson", "mudholkar_george", "stouffer",
                               "tippett", "edgington", "edgington_sym", "simes"} }
    \cup
    { <<m, "weighted">> : m \in {"fisher", "pearson", "mudholkar_george", "stouffer",
                                 "edgington", "edgington_sym"} }

\* the function the docstring of combine gives as an example of a
\* self-defined method: lambda p,q,w: w.dot(np.log(p/q))
UserStatistic == "lambda p,q,w: w.dot(np.log(p/q))"

\* signature(statistic).parameters
parameters(stat) ==
    LET m == stat[1]
        a == IF m = "pearson" THEN {"q"}
             ELSE IF m \in {"mudholkar_george", "edgington_sym", UserStatistic}
             THEN {"p", "q"}
             ELSE {"p"}
    IN  IF stat[2] = "normal" THEN a ELSE a \cup {"w"}

\* the value of the statistic on one column: kw.p and kw.q are the vectors
\* handed over under the names p and q, kw.w the weights, kw.k their length
evaluate(stat, kw) ==
    LET m == stat[1]
        n == 1..kw.k
    IN  IF stat[2] = "normal" THEN
            CASE m = "fisher"           -> ExpSumLn(kw.p)
              [] m = "pearson"          -> ExpNeg(ExpSumLn(kw.q))
              [] m = "mudholkar_george" -> ExpSumLn([i \in n |-> Div(kw.p[i], kw.q[i])])
              [] m = "stouffer"         -> SumSeq([i \in n |-> erfinv_2p_1(kw.p[i])])
              [] m = "tippett"          -> MinSeq(kw.p)
              [] m = "edgington"        -> SumSeq(kw.p)
              [] m = "edgington_sym"    -> SumSeq([i \in n |-> Sub(kw.p[i], kw.q[i])])
              [] m = "simes"            ->
                     MinSeq([i \in n |-> DivInt(kw.p[i], rankdata(kw.p)[i])])
        ELSE
            CASE m = "fisher"           -> ExpDotLn(kw.w, kw.p)
              [] m = "pearson"          -> ExpNeg(ExpDotLn(kw.w, kw.q))
              [] m = "mudholkar_george" ->
                     ExpDotLn(kw.w, [i \in n |-> Div(kw.p[i], kw.q[i])])
              [] m = "stouffer"         -> Dot(kw.w, [i \in n |-> erfinv_2p_1(kw.p[i])])
              [] m = "edgington"        -> Dot(kw.w, kw.p)
              [] m = "edgington_sym"    ->
                     Dot(kw.w, [i \in n |-> Sub(Add(kw.p[i], One), kw.q[i])])
              [] m = UserStatistic      ->
                     ExpDotLn(kw.w, [i \in n |-> Div(kw.p[i], kw.q[i])])

flip_pq_unchanged(arg) == arg

\* flip_pq of one name
flip_pq(arg) == IF arg = "p" THEN "q" ELSE IF arg = "q" THEN "p" ELSE arg

\* flip_pq of a set of names
flip_pq_set(args) == { flip_pq(arg) : arg \in args }

\* apply_statistics with alternative "less" or "greater" on one column of
\* data: kwargs = { par: data[ par if alternative=="less" else flip_pq(par) ] }
apply_one_sided(stat, dat, alt) ==
    LET kwargs(par) == dat[IF alt = "less" THEN par ELSE flip_pq(par)]
    IN  evaluate(stat, [k |-> dat.k, p |-> kwargs("p"), q |-> kwargs("q"),
                        w |-> kwargs("w")])

apply_statistics_less_for_two_sided(stat, dat, alt) ==
    IF alt = "greater" THEN apply_one_sided(stat, dat, "greater")
    ELSE apply_one_sided(stat, dat, "less")

\* apply_statistics on one column of data (alternative is a valid one)
apply_statistics(stat, dat, alt) ==
    IF alt \in {"less", "greater"} THEN apply_one_sided(stat, dat, alt)
    ELSE Minimum(apply_one_sided(stat, dat, "less"),
                 apply_one_sided(stat, dat, "greater"))

----------------------------------------------------------------------------
(* ctr.py: combine *)

\* the square root is kept as a term: sqrt(0) = 0, else sqrt(x)
sqrt(x) == IF x.n = 0 THEN Zero ELSE [sqrt |-> x]

\* tools.std_counted_p: np.sqrt(p*(1-p)/n)
std_counted_p(x, n) == sqrt(DivInt(Mul(x, Sub(One, x)), n))

\* callable(method)
callable(m) == m = UserStatistic

resolve_weights_dropped(m, w) ==
    IF \E key \in combining_statistics : key[1] = m
    THEN IF w = NoWeights \/ <<m, "weighted">> \notin combining_statistics
         THEN [error |-> "none", statistic |-> <<m, "normal">>]
         ELSE [error |-> "none", statistic |-> <<m, "weighted">>]
    ELSE IF ~callable(m) THEN [error |-> "ValueError", statistic |-> None]
    ELSE [error |-> "none", statistic |-> <<m, "callable">>]

\* the statistic combine selects, or the ValueError it raises
resolve(m, w) ==
    IF \E key \in combining_statistics : key[1] = m
    THEN IF w = NoWeights THEN [error |-> "none", statistic |-> <<m, "normal">>]
         ELSE IF <<m, "weighted">> \in combining_statistics
         THEN [error |-> "none", statistic |-> <<m, "weighted">>]
         ELSE [error |-> "ValueError", statistic |-> None]
    ELSE IF ~callable(m) THEN [error |-> "ValueError", statistic |-> None]
    ELSE [error |-> "none", statistic |-> <<m, "callable">>]

\* required_args of combine
required_args(stat, alt) ==
    LET a == parameters(stat)
    IN  IF alt = "greater" THEN flip_pq_set(a)
        ELSE IF alt = "two-sided" THEN a \cup flip_pq_set(a)
        ELSE a

RECURSIVE SumInt(_)
SumInt(s) == IF s = << >> THEN 0 ELSE Head(s) + SumInt(Tail(s))

Returned(value, calls) == [error |-> "none", result |-> value, calls |-> calls]
Raised(exc, calls)     == [error |-> exc, result |-> None, calls |-> calls]

\* data_orig of combine: the observed p and q of every test, and the weights
data_orig(cs, w) ==
    [k |-> Len(cs), p |-> [i \in 1..Len(cs) |-> cs[i].p],
     q |-> [i \in 1..Len(cs) |-> cs[i].q], w |-> w]

\* data_null of combine, column by column.  draw[i] is the array the sampling
\* of cs[i].nulldist returns for p; the q sampled with it is its complement.
sampled_data_null(cs, w, n, draw) ==
    [c \in 1..n |->
        [k |-> Len(cs), p |-> [i \in 1..Len(cs) |-> draw[i][c]],
         q |-> [i \in 1..Len(cs) |-> complement(cs[i].nulldist, draw[i][c])],
         w |-> w]]

\* the exception combine raises from the resolution of the method on ("none"
\* if it returns), and the calls it has made on RNG by then
combine_raises(cs, w, m, alt, n, sm) ==
    LET k    == Len(cs)
        res  == resolve(m, w)
        stat == res.statistic
        req  == required_args(stat, alt)
        \* sample_both for p and q together, else one sample per required name
        per_ctr == IF {"p", "q"} \subseteq req THEN 1
                   ELSE Cardinality(req \cap {"p", "q"})
        failing == { i \in 1..k : sample_error(cs[i].nulldist, n, sm) # "none" }
        first   == CHOOSE i \in failing : \A j \in failing : i <= j
        calls(upto) == SumInt([i \in 1..upto |->
                                  per_ctr * sample_calls(cs[i].nulldist, sm)])
    IN  IF res.error # "none" THEN [error |-> res.error, calls |-> 0]
        ELSE IF per_ctr > 0 /\ failing # {}
        THEN [error |-> sample_error(cs[first].nulldist, n, sm),
              calls |-> calls(first - 1)]
        \* apply_statistics: the else branch of the dispatch on alternative
        ELSE IF alt \notin {"less", "greater", "two-sided"}
        THEN [error |-> "ValueError", calls |-> calls(k)]
        \* data[par] for par = "w" when no weights were given
        ELSE IF "w" \in parameters(stat) /\ w = NoWeights
        THEN [error |-> "KeyError", calls |-> calls(k)]
        \* w.dot(...) with len(w) != len(ctrs)
        ELSE IF "w" \in parameters(stat) /\ Len(w) # k
        THEN [error |-> "ValueError", calls |-> calls(k)]
        ELSE [error |-> "none", calls |-> calls(k)]

\* the end of combine: the statistic applied to the observed data and to every
\* column of the null data, and the two handed to counted_p.  The value
\* counted_p returns is handed back as the pair (pvalue, std) with
\* std = std_counted_p(pvalue, n).
apply_and_count(stat, dorig, dnull, alt) ==
    LET n        == Len(dnull)
        orig_st  == apply_statistics(stat, dorig, alt)
        null_st  == [c \in 1..n |-> apply_statistics(stat, dnull[c], alt)]
        pvalue   == counted_p(orig_st, null_st)
    IN  [orig_stat |-> orig_st, null_stats |-> null_st,
         result |-> Combined_P_Value(pvalue, std_counted_p(pvalue, n))]

\* combine from the resolution of the method on
combine_sampled(cs, w, m, alt, n, sm, draw) ==
    LET e     == combine_raises(cs, w, m, alt, n, sm)
        stat  == resolve(m, w).statistic
        dnull == sampled_data_null(cs, w, n, draw)
        r     == apply_and_count(stat, data_orig(cs, w), dnull, alt)
    IN  IF e.error # "none"
        THEN [error |-> e.error, result |-> None, calls |-> e.calls,
              statistic |-> stat, data_null |-> None,
              orig_stat |-> None, null_stats |-> None]
        ELSE [error |-> "none", result |-> r.result, calls |-> e.calls,
              statistic |-> stat, data_null |-> dnull,
              orig_stat |-> r.orig_stat, null_stats |-> r.null_stats]

combine_single_q(cs) == Returned(Combined_P_Value(cs[1].q, Zero), 0)

\* if len(ctrs)==1: return Combined_P_Value(ctrs[0].p,0)
combine_single(cs) == Returned(Combined_P_Value(cs[1].p, Zero), 0)

\* combine(ctrs, weights, method, alternative, n_samples, sampling_method, RNG)
combine(cs, w, m, alt, n, sm, draw) ==
    IF Len(cs) = 1 THEN combine_single(cs)
    ELSE combine_sampled(cs, w, m, alt, n, sm, draw)

\* whether combine gets as far as applying the statistic to the sampled data
statistics_applied(cs, w, m, alt, n, sm) ==
    Len(cs) # 1 /\ combine_raises(cs, w, m, alt, n, sm).error = "none"

\* the local variable of that name, None where combine does not get to set it
Local(r, name) == IF name \in DOMAIN r THEN r[name] ELSE None

\* the arrays the sampling of the null distributions of cs[1..k] can return,
\* one array per test
RECURSIVE Draws(_, _, _, _)
Draws(cs, k, n, sm) ==
    IF k = 0 THEN { << >> }
    ELSE LET rows == IF sample_error(cs[k].nulldist, n, sm) # "none" THEN { << >> }
                     ELSE sample(cs[k].nulldist, n, sm)
         IN  { Append(d, r) : d \in Draws(cs, k - 1, n, sm), r \in rows }

\* the arrays the sampling of cs[i], cs[i+1], ... returns, one test after the
\* other, rng being the RNG of sampling_kwargs as it is when cs[i] is sampled
RECURSIVE drawn(_, _, _, _, _, _, _)
drawn(cs, i, n, sm, rng, fresh, mem) ==
    IF i > Len(cs) THEN << >>
    ELSE LET s == sample_from(cs[i].nulldist, n, sm, rng, fresh[i], mem[i])
         IN  << s.array >> \o drawn(cs, i + 1, n, sm, s.RNG, fresh, mem)

\* combine(ctrs, weights, method, alternative, n_samples, sampling_method, RNG=rng):
\* what it raises or returns, and the state it leaves rng in
combine_RNG(cs, w, m, alt, n, sm, rng, fresh, mem) ==
    LET draws == { IF statistics_applied(cs, w, m, alt, n, sm)
                   THEN drawn(cs, 1, n, sm, rng, fresh, mem) ELSE << >> }
        left(r) == IF rng = None THEN None ELSE advanced(rng, r.calls)
    IN  CHOOSE c \in { [RNG |-> left(r)] @@ r :
                         r \in { combine(cs, w, m, alt, n, sm, draw) :
                                   draw \in draws } } : TRUE

\* the generators default_rng() can make for the tests of cs, one per call of
\* sample, when combine is given no generator
Fresh(cs, rng) ==
    IF rng = None THEN [1..Len(cs) -> FreshSeeds] ELSE { [i \in 1..Len(cs) |-> None] }

\* what the np.empty of the sampling of each test of cs can find in memory
Memory(cs, n, sm) ==
    LET allocates(i) == sm = "proportional" /\ ~continuous(cs[i].nulldist)
    IN  { mem \in [1..Len(cs) -> [1..n -> Unwritten] \cup { << >> }] :
            \A i \in 1..Len(cs) : (mem[i] = << >>) <=> ~allocates(i) }

----------------------------------------------------------------------------
(* Inputs *)

\* k/Den for k = -1 .. Den+1: a negative value, 0, the grid of (0,1], a value > 1
Coarse == { Num(k, Den, 0) : k \in -1..(Den+1) }

\* 1 + f*1e-14: 1-1e-10, 1-1e-12, 1-1e-13, 1-1e-14, 1+1e-11, 1+5e-11, 1+1e-10
NearOne == { Num(Den, Den, f) : f \in {-Tol, -100, -10, -1, 1000, 5000, Tol} }

\* 1/Den + f*1e-14, to tell a relative tolerance from an absolute one
NearLow == { Num(1, Den, f) : f \in {-3000, -1000, 3000} }

Grid  == Coarse \cup NearOne
PGrid == Grid \cup NearLow \cup {NaN}

SeqsUpTo(S, k) == UNION { [1..m -> S] : m \in 0..k }

Collections(S, k) ==
    { [kind |-> None, vals |-> << >>] } \cup
    { [kind |-> c, vals |-> v] : c \in {"list", "ndarray"}, v \in SeqsUpTo(S, k) }

Stats == { Num(k, 2, 0) : k \in 0..MaxStat }

\* null statistics just above the observed statistic 1/2: 0.5+1e-14, 0.5+1e-13
NearStats == { Num(1, 2, f) : f \in {1, 10} }

\* the tolerances asked for: none, 5e-14, 1e-12
Tolerances == { 0, 5, 100 }

\* tests/test_tools.py test_counted_p: null 1..9, observed 0.5, 3.5, 10
TestNullStats == [i \in 1..9 |-> Num(i, 1, 0)]
TestOrigStats == { Num(1, 2, 0), Num(7, 2, 0), Num(10, 1, 0) }

----------------------------------------------------------------------------
NoCountedArgs == orig_stat = None /\ null_stats = None /\ atol = None
NoOperands == other = None /\ third = None /\ tie = None

NoFactoryArgs == factory = None /\ xy = None /\ loop_i = None

NoLogPArgs == logps = None /\ logprobs = None

NoCombineArgs ==
    /\ ctrs = None /\ method = None /\ weights = NoWeights /\ alternative = None
    /\ sampling_method = None /\ n_samples = None
    /\ statistic = None /\ data = None /\ data_null = None

(* counted_p *)

InitCountedP ==
    /\ pc = "call"
    /\ \/ orig_stat \in Stats /\ null_stats \in SeqsUpTo(Stats \cup NearStats, MaxNull)
       \/ orig_stat \in TestOrigStats /\ null_stats = TestNullStats
    /\ atol \in Tolerances
    /\ p = None /\ all_ps = None /\ caller_ps = None /\ self = None
    /\ NoCombineArgs
    /\ generator = None /\ earlier = None
    /\ NoOperands /\ NoFactoryArgs /\ NoLogPArgs
    /\ RNG = 0 /\ result = None /\ error = "none"

CallCountedP ==
    /\ pc = "call"
    /\ result' = counted_p(orig_stat, null_stats)
    /\ pc' = "done"
    /\ UNCHANGED << operands, factory_args, logp_args, generator, earlier, counted_args, p, all_ps, caller_ps, self, combine_args, combine_locals, RNG,
                    error >>

SpecCountedP == InitCountedP /\ [][CallCountedP]_vars

----------------------------------------------------------------------------
(* PDist *)

InitPDist ==
    /\ pc = "call"
    /\ all_ps \in Collections(Grid, MaxSupport)
    /\ caller_ps = all_ps.vals
    /\ NoCountedArgs /\ NoCombineArgs /\ p = None /\ self = None
    /\ generator = None /\ earlier = None
    /\ NoOperands /\ NoFactoryArgs /\ NoLogPArgs
    /\ RNG = 0 /\ result = None /\ error = "none"

\* dist = PDist(ps)
CallPDist ==
    /\ pc = "call"
    /\ LET r == PDist_init(all_ps)
       IN  /\ error' = r.error
           /\ self' = IF r.error = "none" THEN [ps |-> r.ps] ELSE None
           /\ caller_ps' = r.caller
    /\ pc' = "done"
    /\ UNCHANGED << operands, factory_args, logp_args, generator, earlier, counted_args, p, all_ps, combine_args, combine_locals, RNG, result >>

\* dist.probs
CallProbs ==
    /\ pc = "done" /\ error = "none"
    /\ result' = probs(self.ps)
    /\ pc' = "probs"
    /\ UNCHANGED << operands, factory_args, logp_args, generator, earlier, counted_args, p, all_ps, caller_ps, self, combine_args, combine_locals, RNG,
                    error >>

NextPDist == CallPDist \/ CallProbs

SpecPDist == InitPDist /\ [][NextPDist]_vars

----------------------------------------------------------------------------
(* PDist: comparison of two distributions *)

\* the distributions PDist constructs from the lists of values k/Den
PDists ==
    { [ps |-> r.ps] :
        r \in { c \in { PDist_init([kind |-> "list", vals |-> v]) :
                          v \in SeqsUpTo({ Num(k, Den, 0) : k \in 1..Den }, MaxSupport) } :
                  c.error = "none" } }

InitPDistEq ==
    /\ pc = "call"
    /\ self \in PDists
    /\ other \in PDists
    /\ NoCountedArgs /\ NoCombineArgs
    /\ p = None /\ all_ps = None /\ caller_ps = None
    /\ third = None /\ tie = None /\ NoFactoryArgs /\ NoLogPArgs
    /\ generator = None /\ earlier = None
    /\ RNG = 0 /\ result = None /\ error = "none"

\* self == other
CallEq ==
    /\ pc = "call"
    /\ result' = PDist_eq(self.ps, other.ps)
    /\ pc' = "swapped"
    /\ UNCHANGED << operands, factory_args, logp_args, generator, earlier, counted_args, p, all_ps, caller_ps, self,
                    combine_args, combine_locals, RNG, error >>

\* other == self, the earlier answer kept
CallEqSwapped ==
    /\ pc = "swapped"
    /\ earlier' = result
    /\ result' = PDist_eq(other.ps, self.ps)
    /\ pc' = "done"
    /\ UNCHANGED << operands, factory_args, logp_args, generator, counted_args, p, all_ps, caller_ps, self,
                    combine_args, combine_locals, RNG, error >>

SpecPDistEq == InitPDistEq /\ [][CallEq \/ CallEqSwapped]_vars

----------------------------------------------------------------------------
(* CTR *)

InitCTR ==
    /\ pc = "call"
    /\ p \in PGrid
    /\ all_ps \in Collections(Grid, MaxAllPs)
    /\ caller_ps = all_ps.vals
    /\ NoCountedArgs /\ NoCombineArgs /\ self = None
    /\ generator = None /\ earlier = None
    /\ NoOperands /\ NoFactoryArgs /\ NoLogPArgs
    /\ RNG = 0 /\ result = None /\ error = "none"

\* ctr = CTR(p, all_ps)
CallCTR ==
    /\ pc = "call"
    /\ LET r == CTR_init(p, all_ps)
       IN  /\ error' = r.error
           /\ self' = IF r.error = "none"
                      THEN [p |-> r.p, q |-> r.q, nulldist |-> r.nulldist]
                      ELSE None
           /\ caller_ps' = r.caller
    /\ pc' = "done"
    /\ UNCHANGED << operands, factory_args, logp_args, generator, earlier, counted_args, p, all_ps, combine_args, combine_locals, RNG, result >>

SpecCTR == InitCTR /\ [][CallCTR]_vars

----------------------------------------------------------------------------
(* combine *)

\* CTR(p, all_ps)
CTR(x, support) ==
    LET r == CTR_init(x, support)
    IN  [error |-> r.error, p |-> r.p, q |-> r.q, nulldist |-> r.nulldist]

Half == Num(Den \div 2, Den, 0)

\* the test results handed to combine: those that CTR((Den-1)/Den), CTR((Den+1)/Den)
\* and CTR(Half, [Half, 1]) construct
TestResults ==
    { [p |-> c.p, q |-> c.q, nulldist |-> c.nulldist] :
        c \in { r \in { CTR(Num(Den - 1, Den, 0), [kind |-> None, vals |-> << >>]),
                        CTR(Num(Den + 1, Den, 0), [kind |-> None, vals |-> << >>]),
                        CTR(Half, [kind |-> "list", vals |-> << Half, One >>]) } :
                  r.error = "none" } }

Methods == { "fisher", "pearson", "mudholkar_george", "stouffer", "tippett",
             "edgington", "edgington_sym", "simes", "unknown", UserStatistic }

InitCombine ==
    /\ pc = "call"
    /\ ctrs \in UNION { [1..k -> TestResults] : k \in 1..MaxCtrs }
    /\ method \in Methods
    /\ weights \in { NoWeights, [i \in 1..Len(ctrs) |-> i],
                     [i \in 1..(Len(ctrs) + 1) |-> 1] }
    /\ alternative \in { "less", "greater", "two-sided", "both" }
    /\ sampling_method \in { "proportional", "stochastic", "other" }
    /\ n_samples = MaxSamples
    /\ statistic = None /\ data = None /\ data_null = None
    /\ NoCountedArgs /\ p = None /\ all_ps = None /\ caller_ps = None /\ self = None
    /\ generator = None /\ earlier = None
    /\ NoOperands /\ NoFactoryArgs /\ NoLogPArgs
    /\ RNG = 0 /\ result = None /\ error = "none"

\* combine(ctrs, weights, method, alternative, n_samples, sampling_method, RNG=RNG)
CallCombine ==
    /\ pc = "call"
    /\ \E r \in { combine(ctrs, weights, method, alternative, n_samples,
                          sampling_method, draw) :
                    draw \in IF statistics_applied(ctrs, weights, method, alternative,
                                                  n_samples, sampling_method)
                             THEN Draws(ctrs, Len(ctrs), n_samples, sampling_method)
                             ELSE { << >> } } :
              /\ error' = r.error
              /\ result' = r.result
              /\ RNG' = RNG + r.calls
              /\ statistic' = Local(r, "statistic")
              /\ data_null' = Local(r, "data_null")
              /\ orig_stat' = Local(r, "orig_stat")
              /\ null_stats' = Local(r, "null_stats")
    /\ pc' = "done"
    /\ UNCHANGED << operands, factory_args, logp_args, generator, earlier, atol, p, all_ps, caller_ps, self, combine_args, data >>

SpecCombine == InitCombine /\ [][CallCombine]_vars

----------------------------------------------------------------------------
(* combine called twice with the same arguments, the second time with a      *)
(* generator in the state the generator of the first call started from.      *)

InitReproduce ==
    /\ pc = "call"
    /\ ctrs \in UNION { [1..k -> TestResults] : k \in 1..MaxCtrs }
    /\ method = "mudholkar_george"
    /\ weights = NoWeights
    /\ alternative \in { "less", "two-sided" }
    /\ sampling_method \in { "proportional", "stochastic" }
    /\ n_samples = MaxSamples
    /\ (generator = None \/ generator \in Seeds)
    /\ statistic = None /\ data = None /\ data_null = None
    /\ NoCountedArgs /\ p = None /\ all_ps = None /\ caller_ps = None /\ self = None
    /\ earlier = None
    /\ NoOperands /\ NoFactoryArgs /\ NoLogPArgs
    /\ RNG = 0 /\ result = None /\ error = "none"

\* the assignments of a call of combine that behaves as r
Combined(r) ==
    /\ error' = r.error
    /\ result' = r.result
    /\ RNG' = RNG + r.calls
    /\ generator' = r.RNG
    /\ statistic' = Local(r, "statistic")
    /\ data_null' = Local(r, "data_null")
    /\ orig_stat' = Local(r, "orig_stat")
    /\ null_stats' = Local(r, "null_stats")

\* combine(ctrs, weights, method, alternative, n_samples, sampling_method, RNG=generator)
CallFirst ==
    /\ pc = "call"
    /\ \E r \in { combine_RNG(ctrs, weights, method, alternative, n_samples,
                              sampling_method, generator, fresh, mem) :
                    fresh \in Fresh(ctrs, generator),
                    mem \in Memory(ctrs, n_samples, sampling_method) } :
              /\ Combined(r)
              /\ earlier' = [RNG |-> generator, result |-> r.result,
                             error |-> r.error, left |-> r.RNG]
    /\ pc' = "again"
    /\ UNCHANGED << operands, factory_args, logp_args, atol, p, all_ps, caller_ps, self, combine_args, data >>

\* the same call, RNG being a generator in the state earlier.RNG
CallAgain ==
    /\ pc = "again"
    /\ \E r \in { combine_RNG(ctrs, weights, method, alternative, n_samples,
                              sampling_method, earlier.RNG, fresh, mem) :
                    fresh \in Fresh(ctrs, earlier.RNG),
                    mem \in Memory(ctrs, n_samples, sampling_method) } :
              Combined(r)
    /\ pc' = "done"
    /\ UNCHANGED << operands, factory_args, logp_args, earlier, atol, p, all_ps, caller_ps, self, combine_args, data >>

SpecReproduce == InitReproduce /\ [][CallFirst \/ CallAgain]_vars

----------------------------------------------------------------------------
(* The combining statistics on given data: the end of combine, from the       *)
(* application of the statistic on, for every named statistic and every       *)
(* vector of valid p-values of the grid.                                      *)

\* the p-values k/Den of (0,1]
PValues == { Num(i, Den, 0) : i \in 1..Den }

\* data of k tests with the p-values ps, q the complement 1-p, and weights w
DataOf(ps, w) ==
    [k |-> Len(ps), p |-> ps, q |-> [i \in 1..Len(ps) |-> Sub(One, ps[i])], w |-> w]

\* null columns of k tests: every test at the lowest draw, every test at the
\* highest, and the two in turn
NullColumns(k) ==
    { [i \in 1..k |-> v] : v \in UniformDraws } \cup
    { [i \in 1..k |-> IF i % 2 = 1 THEN Num(1, Den, 0) ELSE One] }

\* null data of n columns for k tests with weights w: one of the null columns
\* in every sample, or the lowest and the highest column in turn
NullData(k, n, w) ==
    { [c \in 1..n |-> DataOf(col, w)] : col \in NullColumns(k) } \cup
    { [c \in 1..n |-> DataOf([i \in 1..k |-> IF c % 2 = 1 THEN Num(1, Den, 0)
                                                          ELSE One], w)] }

\* the weights given with a weighted statistic: unequal ones and equal ones
WeightsFor(stat, k) ==
    IF stat[2] = "normal" THEN { NoWeights }
    ELSE { [i \in 1..k |-> i], [i \in 1..k |-> 2] }

InitStatistic ==
    /\ pc = "call"
    /\ statistic \in combining_statistics
    /\ alternative \in { "less", "greater", "two-sided" }
    /\ n_samples = MaxSamples
    /\ \E k \in 1..MaxCtrs :
          /\ weights \in WeightsFor(statistic, k)
          /\ data \in { DataOf(ps, weights) : ps \in [1..k -> PValues] }
          /\ data_null \in NullData(k, n_samples, weights)
    /\ ctrs = None /\ method = None /\ sampling_method = None
    /\ NoCountedArgs /\ p = None /\ all_ps = None /\ caller_ps = None /\ self = None
    /\ generator = None /\ earlier = None
    /\ NoOperands /\ NoFactoryArgs /\ NoLogPArgs
    /\ RNG = 0 /\ result = None /\ error = "none"

\* orig_stat = apply_statistics(statistic, data_orig, alternative), null_stats
\* likewise from data_null, and the return of counted_p(orig_stat, null_stats)
CallApplyStatistics ==
    /\ pc = "call"
    /\ LET r == apply_and_count(statistic, data, data_null, alternative)
       IN  /\ orig_stat' = r.orig_stat
           /\ null_stats' = r.null_stats
           /\ result' = r.result
    /\ pc' = "done"
    /\ UNCHANGED << operands, factory_args, logp_args, generator, earlier, atol, p, all_ps, caller_ps, self, combine_args, combine_locals,
                    RNG, error >>

SpecStatistic == InitStatistic /\ [][CallApplyStatistics]_vars

----------------------------------------------------------------------------
(* ctr.py, tests.py: the factories of test results.  The p-values come from  *)
(* SciPy; what is modelled of a factory is its path to the constructor: the   *)
(* exception it raises, or the class whose constructor it calls.              *)

\* spearmanr(..., n_thresh=9)
n_thresh == 9

\* single_mwu, single_sign_test(..., uniform_threshold=30)
uniform_threshold == 30

\* str.lower() of the alternatives handed to the factories
lower(alt) == IF alt = "Two-Sided" THEN "two-sided" ELSE alt

\* the alternatives SciPy's tests accept; any other makes them raise ValueError
scipy_alternatives == { "two-sided", "less", "greater" }

\* the outcome of a factory: exc raised, or the constructor of class cls called
Outcome_of(exc, cls) == [error |-> exc, constructed |-> cls]

\* assert_one_sided: the exception it raises, "none" if it returns
assert_one_sided(alt) ==
    IF lower(alt) = "two-sided" THEN "NotImplementedError"
    ELSE IF alt \notin { "less", "greater" } THEN "ValueError"
    ELSE "none"

\* math.comb(m, j)
RECURSIVE comb(_, _)
comb(m, j) == IF j = 0 THEN 1 ELSE (comb(m, j - 1) * (m - j + 1)) \div j

\* 2**m times the binomial CDF at i for m trials of probability 1/2
RECURSIVE binom_cdf(_, _)
binom_cdf(m, i) == IF i < 0 THEN 0 ELSE binom_cdf(m, i - 1) + comb(m, i)

\* tools.sign_test: 2**m times binomtest(greater, non_tied, alternative).pvalue
sign_test_p(greater, m, alt) ==
    LET lo == binom_cdf(m, greater)
        hi == binom_cdf(m, m - greater)
        both == 2 * (IF lo < hi THEN lo ELSE hi)
    IN  IF alt = "less" THEN lo
        ELSE IF alt = "greater" THEN hi
        ELSE IF both > 2^m THEN 2^m ELSE both

\* 2**m times all_ps = list(np.cumsum([comb(m,i)/2**m for i in range(m)])) + [1]
sign_test_all_ps(m) == { binom_cdf(m, i) : i \in 0..(m - 1) } \cup { 2^m }

\* CTR.mann_whitney_u(x, y, **kwargs); alt is kwargs["alternative"], None if absent
mann_whitney_u(s, alt) ==
    IF alt = None THEN Outcome_of("ValueError", None)
    ELSE IF assert_one_sided(alt) # "none" THEN Outcome_of(assert_one_sided(alt), None)
    ELSE IF s.ties THEN Outcome_of("NotImplementedError", None)
    ELSE Outcome_of("none", "CTR")

\* CTR.sign_test(x, y, alternative): tools.sign_test returns a pair, which
\* p,m,_ = sign_test(x,y,alternative) cannot unpack
CTR_sign_test(s, alt) ==
    LET a == IF alt = None THEN "less" ELSE alt
    IN  IF assert_one_sided(a) # "none" THEN Outcome_of(assert_one_sided(a), None)
        ELSE Outcome_of("ValueError", None)

\* CTR.spearmanr(x, y, alternative, n_thresh)
CTR_spearmanr(s, alt) ==
    LET a == IF alt = None THEN "greater" ELSE alt
    IN  IF s.n > n_thresh
        THEN IF a \in scipy_alternatives THEN Outcome_of("none", "CTR")
             ELSE Outcome_of("ValueError", None)
        ELSE IF assert_one_sided(a) # "none" THEN Outcome_of(assert_one_sided(a), None)
        ELSE Outcome_of("none", "CTR")

\* CTR.kendalltau(x, y, **kwargs)
CTR_kendalltau(s, alt) ==
    IF alt = None THEN Outcome_of("KeyError", None)
    ELSE IF assert_one_sided(alt) # "none" THEN Outcome_of(assert_one_sided(alt), None)
    ELSE IF s.ties THEN Outcome_of("NotImplementedError", None)
    ELSE Outcome_of("none", "CTR")

\* CTR.fisher_exact(C, alternative) and CTR.boschloo_exact(C, alternative)
CTR_exact(alt) ==
    LET a == IF alt = None THEN "less" ELSE alt
    IN  IF assert_one_sided(a) # "none" THEN Outcome_of(assert_one_sided(a), None)
        ELSE Outcome_of("none", "CTR")

\* tests.single_mwu(x, y, **kwargs)
single_mwu(s, alt) ==
    IF alt = None THEN Outcome_of("KeyError", None)
    ELSE IF lower(alt) = "two-sided" THEN Outcome_of("NotImplementedError", None)
    ELSE IF alt \notin scipy_alternatives THEN Outcome_of("ValueError", None)
    ELSE Outcome_of("none", "CombinedTestResult")

\* tests.single_sign_test(x, y, alternative): its guard compares the string
\* "alternative" with "two-sided" and is never taken
single_sign_test(s, alt) ==
    LET a == IF alt = None THEN "less" ELSE alt
        m == s.n
    IN  IF "alternative" = "two-sided" THEN Outcome_of("NotImplementedError", None)
        ELSE IF a \notin scipy_alternatives THEN Outcome_of("ValueError", None)
        ELSE IF m + 1 < uniform_threshold
                /\ sign_test_p(s.greater, m, a) \notin sign_test_all_ps(m)
        THEN Outcome_of("AssertionError", None)
        ELSE Outcome_of("none", "CombinedTestResult")

Factories == { "mann_whitney_u", "sign_test", "spearmanr", "kendalltau",
               "fisher_exact", "boschloo_exact", "single_mwu", "single_sign_test" }

\* the call factory(x, y, alternative=alt), or factory(C, alternative=alt)
call_factory(f, s, alt) ==
    CASE f = "mann_whitney_u"   -> mann_whitney_u(s, alt)
      [] f = "sign_test"        -> CTR_sign_test(s, alt)
      [] f = "spearmanr"        -> CTR_spearmanr(s, alt)
      [] f = "kendalltau"       -> CTR_kendalltau(s, alt)
      [] f = "fisher_exact"     -> CTR_exact(alt)
      [] f = "boschloo_exact"   -> CTR_exact(alt)
      [] f = "single_mwu"       -> single_mwu(s, alt)
      [] f = "single_sign_test" -> single_sign_test(s, alt)

\* the sizes of the samples: the small ones, one above n_thresh and the two
\* around uniform_threshold - 1
SampleSizes == 1..MaxSampleSize \cup { n_thresh + 1, uniform_threshold - 2, uniform_threshold - 1 }

\* n = len(x), greater = np.sum(x>y), ties = whether any two values are equal
Samples ==
    { [n |-> n, greater |-> g, ties |-> t] :
        n \in SampleSizes, g \in 0..MaxSampleSize, t \in BOOLEAN }

InitFactory ==
    /\ pc = "call"
    /\ factory \in Factories
    /\ xy \in { s \in Samples : s.greater <= s.n }
    /\ loop_i = None
    /\ alternative \in { None, "less", "greater", "two-sided", "Two-Sided", "both" }
    /\ ctrs = None /\ method = None /\ weights = NoWeights
    /\ sampling_method = None /\ n_samples = None
    /\ statistic = None /\ data = None /\ data_null = None
    /\ NoCountedArgs /\ p = None /\ all_ps = None /\ caller_ps = None /\ self = None
    /\ NoOperands /\ NoLogPArgs
    /\ generator = None /\ earlier = None
    /\ RNG = 0 /\ result = None /\ error = "none"

\* factory(x, y, alternative=alternative)
CallFactory ==
    /\ pc = "call"
    /\ LET r == call_factory(factory, xy, alternative)
       IN  /\ error' = r.error
           /\ result' = r.constructed
    /\ pc' = "done"
    /\ UNCHANGED << operands, factory_args, logp_args, generator, earlier, counted_args,
                    p, all_ps, caller_ps, self, combine_args, combine_locals, RNG >>

SpecFactory == InitFactory /\ [][CallFactory]_vars

----------------------------------------------------------------------------
(* logpdist.py: LogPDist *)

\* 1e-5 in fine units of 1e-14
E5 == 1000000000

\* np.min and np.max of a non-empty array
np_min(s) == CHOOSE x \in { s[i] : i \in 1..Len(s) } : \A j \in 1..Len(s) : Le(x, s[j])
np_max(s) == CHOOSE x \in { s[i] : i \in 1..Len(s) } : \A j \in 1..Len(s) : Ge(x, s[j])

\* np.diff(logps)
np_diff(s) == [i \in 1..(Len(s) - 1) |-> Sub(s[i+1], s[i])]

\* np.max(steps)/np.min(steps) > 1+1e-5 for steps >= 0: x/0 is inf and 0/0 is
\* nan; steps whose coarse parts differ differ by far more than 1e-5 of the
\* smaller; steps with the same coarse part n/d > 0 are compared by
\* (mx.f - mn.f) > 1e-5 * n/d, and steps without a coarse part by their fine parts
RatioExceeds(mx, mn) ==
    LET c   == mx.n * mn.d - mn.n * mx.d
        lhs == (mx.f - mn.f) * mn.d
    IN  IF Eq(mn, Zero) THEN Gt(mx, Zero)
        ELSE IF c # 0 THEN c > 0
        ELSE IF mn.n # 0
             THEN lhs \div mn.n > E5 \/ (lhs \div mn.n = E5 /\ lhs % mn.n > 0)
        ELSE (mx.f - mn.f) * 100000 > mn.f

\* LogPDist.__init__(logps, probs), logps being the caller's list.  Returns
\* the exception raised, the stored logps and probs, and the caller's list
\* afterwards: logps[-1] = 0 writes into the list that was passed.
LogPDist_init(lp, pr) ==
    LET k      == Len(lp)
        zeroed == SetLast(lp, Zero)
        steps  == np_diff(zeroed)
        raise(exc, caller) ==
            [error |-> exc, logps |-> None, probs |-> None, caller |-> caller]
    IN  IF k # Len(pr) THEN raise("ValueError", lp)
        \* logps[-1] of an empty list
        ELSE IF k = 0 THEN raise("IndexError", lp)
        ELSE IF Le(lp[k], Num(0, 1, -E5)) THEN raise("ValueError", lp)
        ELSE IF Gt(Abs(Sub(SumSeq(pr), One)), Num(0, 1, Tol * k))
        THEN raise("ValueError", zeroed)
        ELSE IF \E i \in 1..(k - 1) : Lt(steps[i], Zero)
        THEN raise("ValueError", zeroed)
        \* np.max of an empty array
        ELSE IF k = 1 THEN raise("ValueError", zeroed)
        ELSE IF RatioExceeds(np_max(steps), np_min(steps))
        THEN raise("ValueError", zeroed)
        ELSE [error |-> "none", logps |-> zeroed, probs |-> pr, caller |-> zeroed]

\* the log-p values before the last one, and the last ones: -1, -1e-5, -1e-6,
\* 0, 1e-6 and 1
LogPBody  == { Num(-k, 1, 0) : k \in 0..2 }
LogPLasts == { Num(-1, 1, 0), Num(0, 1, -E5), Num(0, 1, -(E5 \div 10)), Zero,
               Num(0, 1, E5 \div 10), One }

\* the probabilities: 1/Den, Half, Half + 1.5e-10 and 1
ProbValues == { Num(1, Den, 0), Half, Num(Den \div 2, Den, Tol + Tol \div 2), One }

InitLogPDist ==
    /\ pc = "call"
    /\ logps \in { << >> } \cup
                 { Append(b, l) : b \in SeqsUpTo(LogPBody, MaxLogPs - 1), l \in LogPLasts }
    /\ logprobs \in SeqsUpTo(ProbValues, MaxLogPs)
    /\ caller_ps = logps
    /\ NoCountedArgs /\ NoCombineArgs /\ p = None /\ all_ps = None /\ self = None
    /\ NoOperands /\ NoFactoryArgs
    /\ generator = None /\ earlier = None
    /\ RNG = 0 /\ result = None /\ error = "none"

\* dist = LogPDist(logps, probs)
CallLogPDist ==
    /\ pc = "call"
    /\ LET r == LogPDist_init(logps, logprobs)
       IN  /\ error' = r.error
           /\ self' = IF r.error = "none" THEN [logps |-> r.logps, probs |-> r.probs]
                      ELSE None
           /\ caller_ps' = r.caller
    /\ pc' = "done"
    /\ UNCHANGED << operands, factory_args, logp_args, generator, earlier, counted_args,
                    p, all_ps, combine_args, combine_locals, RNG, result >>

SpecLogPDist == InitLogPDist /\ [][CallLogPDist]_vars

----------------------------------------------------------------------------
(* logpdist.py: products and comparison of LogPDist objects.  A LogPDist is   *)
(* the record of its logps and probs; an operation returns the exception it   *)
(* raises ("none" if none) and its value.                                      *)

\* the element of a set of one element: Only({ e(v) : v \in { x } }) is e of
\* the value of x, x being evaluated once
Only(S) == CHOOSE y \in S : TRUE

\* tools.is_unity: thing == 1
is_unity(thing) == thing = One

\* LogPDist.density: -len(self)/self[0][0]
density(dist) == Div(Num(Len(dist.logps), 1, 0), Neg(dist.logps[1]))

\* np.linspace(start, 0, num)
linspace_to_0(start, num) ==
    [i \in 1..num |-> IF num = 1 THEN start
                      ELSE DivInt(MulInt(start, num - i), num - 1)]

\* tools.searchsorted_closest(array, values): for each value the index (from 1)
\* of the closest element of the ascending array.  For a value halfway between
\* two elements the comparison of the two floating-point distances goes as
\* their rounding has it, which is what tie stands for.
searchsorted_closest(array, values) ==
    LET n == Len(array)
        clip(i) == IF i < 1 THEN 1 ELSE IF i > n THEN n ELSE i
        \* np.searchsorted(array, v, side="left")
        right(v) == clip(Cardinality({ i \in 1..n : Lt(array[i], v) }) + 1)
        left(v)  == clip(right(v) - 1)
        to_left(v)  == Sub(v, array[left(v)])
        to_right(v) == Sub(array[right(v)], v)
        left_or_right(v) ==
            IF left(v) # right(v) /\ Eq(to_left(v), to_right(v)) THEN tie = "left"
            ELSE Lt(to_left(v), to_right(v))
    IN  [j \in 1..Len(values) |->
            IF left_or_right(values[j]) THEN left(values[j]) ELSE right(values[j])]

\* probs = np.zeros(n); np.add.at(probs, indices, masses)
add_at(n, indices, masses) ==
    [i \in 1..n |-> SumSeq([j \in 1..Len(masses) |->
                               IF indices[j] = i THEN masses[j] ELSE Zero])]

\* what LogPDist(logps, probs) gives for freshly made logps
LogPDist(lp, pr) ==
    Only({ [error |-> r.error, logps |-> r.logps, probs |-> r.probs] :
             r \in { LogPDist_init(lp, pr) } })

\* LogPDist._rescaled(density)
rescaled(dist, dens) ==
    Only({ LogPDist(lp, add_at(Len(lp), searchsorted_closest(lp, dist.logps),
                               dist.probs)) :
             lp \in { linspace_to_0(dist.logps[1],
                                    round(Mul(dens, Neg(dist.logps[1])))) } })

\* LogPDist._adjust_density(other, rtol): the exception raised and the pair returned
adjust_density(dist, oth, rtol) ==
    LET same(d) == [error |-> "none", logps |-> d.logps, probs |-> d.probs]
        pair(a, b) == [error |-> IF a.error # "none" THEN a.error ELSE b.error,
                       self |-> a, other |-> b]
    IN  IF Gt(Div(density(dist), density(oth)), Num(1, 1, rtol))
        THEN pair(same(dist), rescaled(oth, density(dist)))
        ELSE IF Gt(Div(density(oth), density(dist)), Num(1, 1, rtol))
        THEN pair(rescaled(dist, density(oth)), same(oth))
        ELSE pair(same(dist), same(oth))

\* scipy.signal.convolve(a, b): the full discrete convolution
convolve(a, b) ==
    [k \in 1..(Len(a) + Len(b) - 1) |->
        SumSeq([i \in 1..Len(a) |->
                   IF k - i + 1 \in 1..Len(b) THEN Mul(a[i], b[k - i + 1]) ELSE Zero])]

\* LogPDist.__mul__(other)
LogPDist_mul(dist, oth) ==
    IF is_unity(oth) THEN [error |-> "none", logps |-> dist.logps, probs |-> dist.probs]
    ELSE Only({ IF adj.error # "none"
                THEN [error |-> adj.error, logps |-> None, probs |-> None]
                ELSE Only({ LogPDist(linspace_to_0(Add(adj.self.logps[1],
                                                       adj.other.logps[1]),
                                                   Len(pr)), pr) :
                              pr \in { convolve(adj.self.probs, adj.other.probs) } }) :
                  adj \in { adjust_density(dist, oth, Tol) } })

\* LogPDist.cumprobs: np.cumsum(self.probs)
cumprobs(dist) == [i \in 1..Len(dist.probs) |-> SumSeq(SubSeq(dist.probs, 1, i))]

\* np.roll(a, shift)
np_roll(a, shift) == [i \in 1..Len(a) |-> a[((i - 1 - shift) % Len(a)) + 1]]

\* LogPDist.__eq__(other): self._diff(other) == 0, the deviation being summed
\* over the positions, each taken against the other's cumulative mass at the
\* position or one of its neighbours
LogPDist_eq(dist, oth) ==
    LET deviation(ca, cb) ==
            SumSeq([i \in 1..Len(ca) |->
                       MinSeq([s \in 1..3 |-> Abs(Sub(ca[i], np_roll(cb, s - 2)[i]))])])
    IN  IF ~Eq(dist.logps[1], oth.logps[1])
        THEN [error |-> "NotImplementedError", value |-> None]
        ELSE Only({ IF adj.error # "none" THEN [error |-> adj.error, value |-> None]
                    ELSE Only({ [error |-> "none",
                                 value |-> Eq(deviation(c[1], c[2]), Zero)] :
                                  c \in { << cumprobs(adj.self), cumprobs(adj.other) >> } }) :
                      adj \in { adjust_density(dist, oth, 0) } })

\* the distributions LogPDist constructs on the grids from -1 or -2 up to 0 of
\* 2..MaxLogPs points, with masses k/Den
LogPDists ==
    { [logps |-> LogPDist(a[1], a[2]).logps, probs |-> a[2]] :
        a \in { c \in UNION { { << linspace_to_0(Num(-low, 1, 0), n), pr >> :
                                  pr \in [1..n -> { Num(k, Den, 0) : k \in 1..(Den - 1) }] } :
                              low \in 1..2, n \in 2..MaxLogPs } :
                  LogPDist(c[1], c[2]).error = "none" } }

\* the distributions of a single p value with two possible values, like the
\* ones test_logpdist.py multiplies
TwoPointLogPDists == { d \in LogPDists : Len(d.logps) = 2 }

InitLogPMul ==
    /\ pc = "call"
    /\ self \in LogPDists
    /\ other \in TwoPointLogPDists
    /\ third \in TwoPointLogPDists
    /\ tie \in { "left", "right" }
    /\ NoCountedArgs /\ NoCombineArgs /\ p = None /\ all_ps = None /\ caller_ps = None
    /\ NoFactoryArgs /\ NoLogPArgs
    /\ generator = None /\ earlier = None
    /\ RNG = 0 /\ result = None /\ error = "none"

\* the exception the first failing one of the operations rs raises
first_error(rs) ==
    IF \A i \in 1..Len(rs) : rs[i].error = "none" THEN "none"
    ELSE rs[CHOOSE i \in 1..Len(rs) :
               rs[i].error # "none" /\ \A j \in 1..(i - 1) : rs[j].error = "none"].error

\* A*B, B*A, (A*B)*C, A*(B*C), A*1 and 1*A (__rmul__ = __mul__), and the
\* comparisons A*B == B*A and (A*B)*C == A*(B*C), for A = self, B = other,
\* C = third
CallLogPMul ==
    /\ pc = "call"
    /\ \E r \in { [ab |-> ab, ba |-> ba, ab_c |-> LogPDist_mul(ab, third),
                   a_bc |-> LogPDist_mul(self, bc),
                   a1 |-> LogPDist_mul(self, One), commutes |-> LogPDist_eq(ab, ba)] :
                    ab \in { LogPDist_mul(self, other) },
                    ba \in { LogPDist_mul(other, self) },
                    bc \in { LogPDist_mul(other, third) } } :
          \E associates \in { LogPDist_eq(r.ab_c, r.a_bc) } :
              /\ result' = [ab |-> r.ab, ba |-> r.ba, ab_c |-> r.ab_c, a_bc |-> r.a_bc,
                            a1 |-> r.a1, commutes |-> r.commutes.value,
                            associates |-> associates.value]
              /\ error' = first_error(<< r.ab, r.ba, r.ab_c, r.a_bc, r.commutes,
                                         associates >>)
    /\ pc' = "done"
    /\ UNCHANGED << operands, factory_args, logp_args, generator, earlier, counted_args,
                    p, all_ps, caller_ps, self, combine_args, combine_locals, RNG >>

SpecLogPMul == InitLogPMul /\ [][CallLogPMul]_vars

----------------------------------------------------------------------------
(* PDist.sample: one call on a constructed distribution.  What the generator *)
(* draws (the visiting order of the support values, the final order of the   *)
(* array, the uniform numbers and the choices of the stochastic method) and  *)
(* what np.empty finds in memory are inputs of the call.                     *)

\* combos = list(zip(self.ps, self.probs))
zipped(ps) == [i \in 1..Len(ps) |-> << ps[i], probs(ps)[i] >>]

slices_of_rounded_lengths(combos, size) ==
    [j \in 1..Len(combos) |->
        << round(RunStart(combos, j, size)),
           round(RunStart(combos, j, size)) + round(MulInt(combos[j][2], size)) >>]

\* the pairs (round(start), round(end)) of the slices the loop assigns, in
\* visiting order
slices(combos, size) ==
    [j \in 1..Len(combos) |->
        << round(RunStart(combos, j, size)), round(RunEnd(combos, j, size)) >>]

\* the slots (0-based) no slice of the loop covers
unset(combos, size) == { t \in 0..(size - 1) : Writers(combos, t, size) = {} }

SampleMethods == { "proportional", "stochastic", "exact" }

InitSample ==
    /\ pc = "call"
    /\ self \in PDists
    /\ n_samples \in 1..MaxSampleSize
    /\ sampling_method \in SampleMethods
    /\ ctrs = None /\ method = None /\ weights = NoWeights /\ alternative = None
    /\ statistic = None /\ data = None /\ data_null = None
    /\ NoCountedArgs /\ p = None /\ all_ps = None /\ caller_ps = None
    /\ NoOperands /\ NoFactoryArgs /\ NoLogPArgs
    /\ generator = None /\ earlier = None
    /\ RNG = 0 /\ result = None /\ error = "none"

\* self.sample(size=n_samples, method=sampling_method)
CallSample ==
    /\ pc = "call"
    /\ \/ /\ sampling_method \notin { "proportional", "stochastic" }
          /\ error' = "ValueError"
          /\ result' = None
       \/ /\ sampling_method = "stochastic"
          /\ \E array \in sample(self.ps, n_samples, "stochastic") :
                result' = [array |-> array, allocated |-> array,
                           combos |-> << >>, slices |-> << >>]
          /\ error' = "none"
       \/ /\ sampling_method = "proportional" /\ continuous(self.ps)
          /\ \E array \in Shuffles(linspace_padded(n_samples)) :
                result' = [array |-> array, allocated |-> linspace_padded(n_samples),
                           combos |-> << >>, slices |-> << >>]
          /\ error' = "none"
       \/ /\ sampling_method = "proportional" /\ ~continuous(self.ps)
          /\ \E combos \in Shuffles(zipped(self.ps)) :
                IF round(RunEnd(combos, Len(combos), n_samples)) # n_samples
                THEN error' = "AssertionError" /\ result' = None
                ELSE /\ error' = "none"
                     /\ \E mem \in IF unset(combos, n_samples) = {}
                                   THEN { [i \in 1..n_samples |-> Zero] }
                                   ELSE [1..n_samples -> Unwritten] :
                          \E array \in Shuffles(Allocated(combos, n_samples, mem)) :
                             result' = [array |-> array,
                                        allocated |-> Allocated(combos, n_samples, mem),
                                        combos |-> combos,
                                        slices |-> slices(combos, n_samples)]
    /\ pc' = "done"
    /\ UNCHANGED << operands, factory_args, logp_args, generator, earlier, counted_args,
                    p, all_ps, caller_ps, self, combine_args, combine_locals, RNG >>

SpecSample == InitSample /\ [][CallSample]_vars

----------------------------------------------------------------------------
(* combine: the null matrices it builds and the names the statistic reads *)

built_both_always(stat, alt) == {"p", "q"}

\* the keys "p" and "q" of data_null after the sampling loop
built(stat, alt) ==
    IF {"p", "q"} \subseteq required_args(stat, alt) THEN {"p", "q"}
    ELSE { x \in {"p", "q"} : x \in required_args(stat, alt) }

\* the method of the null distribution the sampling loop calls on every test
sampler(stat, alt) ==
    IF {"p", "q"} \subseteq required_args(stat, alt) THEN "sample_both"
    ELSE IF built(stat, alt) = {} THEN None
    ELSE "sample"

\* the keys apply_statistics looks up in data under a one-sided alternative
looked_up(stat, alt) ==
    { IF alt = "less" THEN par ELSE flip_pq(par) : par \in parameters(stat) }

\* the keys apply_statistics looks up in data
read(stat, alt) ==
    IF alt \in {"less", "greater"} THEN looked_up(stat, alt)
    ELSE looked_up(stat, "less") \cup looked_up(stat, "greater")

\* PDist.sample_both: the sample of p values drawn and, place by place, the
\* complements that go with them
sample_both(ps, drawn_ps) ==
    << drawn_ps, [c \in 1..Len(drawn_ps) |-> complement(ps, drawn_ps[c])] >>

\* PDist.sample(which=...): the sample drawn for "p", its complements for "q"
sample_which(ps, which, drawn_ps) ==
    IF which = "p" THEN drawn_ps
    ELSE [c \in 1..Len(drawn_ps) |-> complement(ps, drawn_ps[c])]

\* data_null of combine as a dictionary of matrices (one row per test).
\* draw[i] is what the generator draws for the null distribution of cs[i],
\* in the one call the sampling loop makes on it.
data_null_built(cs, w, stat, alt, n, draw) ==
    LET both == {"p", "q"} \subseteq required_args(stat, alt)
        row(x, i) ==
            IF both
            THEN sample_both(cs[i].nulldist, draw[i])[IF x = "p" THEN 1 ELSE 2]
            ELSE sample_which(cs[i].nulldist, x, draw[i])
        keys == built(stat, alt) \cup (IF w = NoWeights THEN {} ELSE {"w"})
    IN  [x \in keys |-> IF x = "w" THEN w ELSE [i \in 1..Len(cs) |-> row(x, i)]]

\* combine(ctrs, weights, method, alternative, n_samples, sampling_method),
\* its dictionary data_null and the keys looked up in it kept
CallCombineData ==
    /\ pc = "call"
    /\ \E c \in { [r |-> combine(ctrs, weights, method, alternative, n_samples,
                                 sampling_method, draw),
                    draw |-> draw] :
                    draw \in IF statistics_applied(ctrs, weights, method, alternative,
                                                  n_samples, sampling_method)
                             THEN Draws(ctrs, Len(ctrs), n_samples, sampling_method)
                             ELSE { << >> } } :
          LET r == c.r
              applied == r.error = "none" /\ Len(ctrs) # 1
              dnull == data_null_built(ctrs, weights, r.statistic, alternative,
                                       n_samples, c.draw)
              missing == applied /\ ~(read(r.statistic, alternative) \subseteq DOMAIN dnull)
          IN  /\ error' = IF missing THEN "KeyError" ELSE r.error
              /\ result' = IF missing THEN None ELSE r.result
              /\ RNG' = RNG + r.calls
              /\ statistic' = Local(r, "statistic")
              /\ data_null' = IF applied THEN dnull ELSE None
              /\ data' = IF applied
                         THEN [sampler |-> sampler(r.statistic, alternative),
                               read |-> read(r.statistic, alternative)]
                         ELSE None
              /\ orig_stat' = IF missing THEN None ELSE Local(r, "orig_stat")
              /\ null_stats' = IF missing THEN None ELSE Local(r, "null_stats")
    /\ pc' = "done"
    /\ UNCHANGED << operands, factory_args, logp_args, generator, earlier, atol, p,
                    all_ps, caller_ps, self, combine_args >>

SpecCombineData == InitCombine /\ [][CallCombineData]_vars

----------------------------------------------------------------------------
(* ctr.py: CTR.boschloo_exact, from the sorted list of the p values of all   *)
(* tables with the margins of C on: the loop that unifies close p values,    *)
(* one iteration per step, and the construction of the result.  The p values *)
(* SciPy computes are inputs.  loop_i is the index i of the source plus 1.   *)

\* del possible_ps[i]
del(s, k) == [j \in 1..(Len(s) - 1) |-> IF j < k THEN s[j] ELSE s[j + 1]]

\* possible_ps[i-1]+atol > possible_ps[i]
close(prev, cur, tol) == Gt(Add(prev, Num(0, 1, tol)), cur)

\* CTR.__init__ raising "p value ... must be in `all_ps`"
not_in_all_ps(x, vals) ==
    /\ ~In(x, vals)
    /\ RelGt(Sub(vals[argmin_dist(vals, x)], x), x)

\* p values a table can have: near 1/Den, spaced by less than, about and more
\* than 1e-10; 1/2; near 1
CandidatePs ==
    { Num(1, Den, f) : f \in { 0, 8000, 11000, 30000 } } \cup { Half } \cup
    { Num(Den, Den, f) : f \in { -5000, 0 } }

\* sorted(...) of line 249: ascending, equal values kept
SortedLists(S, k) ==
    { s \in SeqsUpTo(S, k) : s # << >> /\ \A j \in 1..(Len(s) - 1) : Le(s[j], s[j + 1]) }

InitBoschloo ==
    /\ pc = "call"
    /\ all_ps \in { [kind |-> "list", vals |-> s] : s \in SortedLists(CandidatePs, MaxSupport) }
    /\ p \in { all_ps.vals[j] : j \in 1..Len(all_ps.vals) }
    /\ atol = Tol
    /\ caller_ps = all_ps.vals
    /\ factory = "boschloo_exact" /\ xy = None
    /\ loop_i = 0    \* not assigned before the loop
    /\ orig_stat = None /\ null_stats = None
    /\ NoCombineArgs /\ self = None
    /\ NoOperands /\ NoLogPArgs
    /\ generator = None /\ earlier = None
    /\ RNG = 0 /\ result = None /\ error = "none"

\* i = 1
EnterLoop ==
    /\ pc = "call"
    /\ loop_i' = 2
    /\ pc' = "loop"
    /\ UNCHANGED << operands, factory, xy, logp_args, generator, earlier, counted_args, p,
                    all_ps, caller_ps, self, combine_args, combine_locals, RNG, result,
                    error >>

\* while i<len(possible_ps): if close: del possible_ps[i]
UnifyDelete ==
    /\ pc = "loop"
    /\ loop_i <= Len(all_ps.vals)
    /\ close(all_ps.vals[loop_i - 1], all_ps.vals[loop_i], atol)
    /\ all_ps' = [all_ps EXCEPT !.vals = del(all_ps.vals, loop_i)]
    /\ UNCHANGED << pc, operands, factory_args, logp_args, generator, earlier,
                    counted_args, p, caller_ps, self, combine_args, combine_locals, RNG,
                    result, error >>

\* while i<len(possible_ps): else: i += 1
UnifyKeep ==
    /\ pc = "loop"
    /\ loop_i <= Len(all_ps.vals)
    /\ ~close(all_ps.vals[loop_i - 1], all_ps.vals[loop_i], atol)
    /\ loop_i' = loop_i + 1
    /\ UNCHANGED << pc, operands, factory, xy, logp_args, generator, earlier,
                    counted_args, p, all_ps, caller_ps, self, combine_args,
                    combine_locals, RNG, result, error >>

\* return cls( p, possible_ps )
Construct ==
    /\ pc = "loop"
    /\ ~(loop_i <= Len(all_ps.vals))
    /\ LET r == CTR_init(p, all_ps)
       IN  /\ error' = r.error
           /\ self' = IF r.error = "none"
                      THEN [p |-> r.p, q |-> r.q, nulldist |-> r.nulldist]
                      ELSE None
           /\ result' = [not_in_all_ps |-> not_in_all_ps(p, all_ps.vals)]
    /\ pc' = "done"
    /\ UNCHANGED << operands, factory_args, logp_args, generator, earlier, counted_args,
                    p, all_ps, caller_ps, combine_args, combine_locals, RNG >>

NextBoschloo == EnterLoop \/ UnifyDelete \/ UnifyKeep \/ Construct

SpecBoschloo == InitBoschloo /\ [][NextBoschloo]_vars

\* the loop is not suspended for ever
FairBoschloo == SpecBoschloo /\ WF_vars(NextBoschloo)

----------------------------------------------------------------------------
(* Properties *)

IsAscending(s)         == \A i \in 1..(Len(s)-1) : Le(s[i], s[i+1])
IsStrictlyAscending(s) == \A i \in 1..(Len(s)-1) : Lt(s[i], s[i+1])
InUnitInterval(x)      == Gt(x, Zero) /\ Le(x, One)
Smallest(s) == CHOOSE x \in { s[i] : i \in 1..Len(s) } : \A j \in 1..Len(s) : Le(x, s[j])
Largest(s)  == CHOOSE x \in { s[i] : i \in 1..Len(s) } : \A j \in 1..Len(s) : Ge(x, s[j])

\* C1: for a non-empty list of n null statistics counted_p returns
\* (count+1)/(n+1), count being the number of null statistics the observed
\* statistic is greater than or equal to; the value is never 0 and never above
\* 1; null 1..9 gives 0.1 for 0.5, 0.4 for 3.5 and 1.0 for 10.
C1_CountedPValue ==
    (pc = "done" /\ Len(null_stats) >= 1) =>
        LET n     == Len(null_stats)
            count == Cardinality({ i \in 1..n : Ge(orig_stat, null_stats[i]) })
        IN  /\ Eq(result, Num(count + 1, n + 1, 0))
            /\ Gt(result, Zero)
            /\ Le(result, One)
            /\ (null_stats = TestNullStats /\ Eq(orig_stat, Num(1, 2, 0)))
                   => Eq(result, Num(1, 10, 0))
            /\ (null_stats = TestNullStats /\ Eq(orig_stat, Num(7, 2, 0)))
                   => Eq(result, Num(4, 10, 0))
            /\ (null_stats = TestNullStats /\ Eq(orig_stat, Num(10, 1, 0)))
                   => Eq(result, One)

\* an observed statistic that ties with one null statistic and exceeds another
C1_Witness ==
    /\ pc = "done"
    /\ Len(null_stats) = MaxNull
    /\ \E i, j \in 1..Len(null_stats) :
          Eq(orig_stat, null_stats[i]) /\ Gt(orig_stat, null_stats[j])
    /\ Lt(result, One)

\* C2: combine called with exactly one test result returns that result's own
\* p-value unchanged with a standard deviation of exactly 0, and makes no call
\* on the random generator.
C2_SingletonIdentity ==
    (pc = "done" /\ Len(ctrs) = 1) =>
        /\ error = "none"
        /\ result.pvalue = ctrs[1].p
        /\ result.std = Zero
        /\ RNG = 0

\* a single discrete test result, combined with a method that draws samples
C2_Witness ==
    /\ pc = "done"
    /\ Len(ctrs) = 1
    /\ ~continuous(ctrs[1].nulldist)
    /\ method = "mudholkar_george"
    /\ Eq(result.pvalue, Half)

\* C3: every value combine returns, for one or more successfully constructed
\* test results, has 0 < pvalue <= 1.
C3_PValueInUnitInterval ==
    (pc = "done" /\ error = "none") => InUnitInterval(result.pvalue)

\* p outside (0,1] or NaN
BadP(x) == x.nan \/ Le(x, Zero) \/ Gt(x, One)

\* C4: constructing a test result raises whenever p is 0, NaN, negative or
\* greater than 1, with or without a support, and no test result with p
\* outside (0,1] is ever produced.
C4_BadPRaises ==
    pc = "done" =>
        /\ BadP(p) => error # "none"
        /\ error = "none" => InUnitInterval(self.p)

\* |dx/x| > 1e-10
FartherThanTol(dx, x) == RelGt(Abs(dx), Abs(x))

Nearest(x, s) == s[argmin_dist(s, x)]

\* C5: a p that is no member of the support is replaced by the nearest support
\* value if that lies within 1e-10 relative tolerance, and otherwise ValueError
\* is raised, whether the nearest value is above or below p.
C5_NoSilentCoercion ==
    (pc = "done" /\ ~is_empty(all_ps) /\ ~BadP(p) /\ ~In(p, all_ps.vals)) =>
        IF FartherThanTol(Sub(Nearest(p, all_ps.vals), p), p)
        THEN error = "ValueError"
        ELSE error = "none" => Eq(self.p, Nearest(p, all_ps.vals))

\* C6: after a successful construction with a non-empty support the stored p
\* equals one of the values of the stored null distribution's support.
C6_PInSupport ==
    (pc = "done" /\ error = "none" /\ ~is_empty(all_ps)) =>
        In(self.p, self.nulldist)

\* C7: the mass of the i-th support value is p_i - p_(i-1) with p_0 = 0, the
\* running sum of the masses up to p_i is p_i, and all the masses sum to 1.
C7_MassesAreDifferences ==
    (pc = "probs" /\ ~continuous(self.ps)) =>
        /\ Len(result) = Len(self.ps)
        /\ \A i \in 1..Len(self.ps) :
              /\ Eq(result[i], Sub(self.ps[i], IF i = 1 THEN Zero ELSE self.ps[i-1]))
              /\ Eq(SumSeq(SubSeq(result, 1, i)), self.ps[i])
        /\ Eq(SumSeq(result), One)

\* a support of several values whose largest value was snapped to 1
C7_Witness ==
    /\ pc = "probs"
    /\ Len(self.ps) = MaxSupport
    /\ IsStrictlyAscending(self.ps)
    /\ ~Eq(Largest(all_ps.vals), One)

\* C8: a non-empty support raises ValueError if its smallest value is <= 0 or
\* its largest value is not within 1e-10 of 1; in every other case the values
\* are stored ascending with the largest stored value exactly 1; an empty or
\* absent support gives the continuous distribution.
C8_ConstructorContract ==
    pc = "done" =>
        IF is_empty(all_ps)
        THEN error = "none" /\ continuous(self.ps)
        ELSE IF Le(Smallest(all_ps.vals), Zero) \/ ~AlmostOne(Largest(all_ps.vals))
        THEN error = "ValueError"
        ELSE /\ error = "none"
             /\ IsAscending(self.ps)
             /\ Eq(Largest(self.ps), One)
             /\ Eq(self.ps[Len(self.ps)], One)

\* C9: after a successful construction the stored support is strictly
\* ascending, every value lies in (0,1], and every mass is positive.
C9_StrictlyAscending ==
    (pc = "done" /\ error = "none" /\ ~continuous(self.ps)) =>
        /\ IsStrictlyAscending(self.ps)
        /\ \A i \in 1..Len(self.ps) : InUnitInterval(self.ps[i])
        /\ \A i \in 1..Len(self.ps) : Gt(probs(self.ps)[i], Zero)

TwoAlmostOne(s) ==
    \E i, j \in 1..Len(s) : ~Eq(s[i], s[j]) /\ AlmostOne(s[i]) /\ AlmostOne(s[j])

\* C10: a support with two distinct values both within 1e-10 of 1 raises
\* ValueError.
C10_TwoAlmostOneRaise ==
    (pc = "done" /\ ~is_empty(all_ps) /\ TwoAlmostOne(all_ps.vals)) =>
        error = "ValueError"

\* the null statistics counted with the tolerance tol (units of 1e-14): those
\* that are <= the observed statistic or exceed it by no more than tol
CountWithin(orig, nulls, tol) ==
    Cardinality({ i \in 1..Len(nulls) : Le(nulls[i], Add(orig, Num(0, 1, tol))) })

\* C11: counted_p counts a null statistic as at least as extreme also when it
\* exceeds the observed statistic by no more than the tolerance asked for.
C11_ToleranceCounted ==
    (pc = "done" /\ Len(null_stats) >= 1) =>
        Eq(result, Num(CountWithin(orig_stat, null_stats, atol) + 1,
                       Len(null_stats) + 1, 0))

\* C12: counted_p returns a pair (pvalue, std) with std = sqrt(pvalue *
\* (1 - pvalue) / n), n the number of null statistics, so that std is 0
\* exactly when pvalue is 1.
C12_PairWithStd ==
    (pc = "done" /\ Len(null_stats) >= 1) =>
        /\ DOMAIN result = {"pvalue", "std"}
        /\ result.std = sqrt(DivInt(Mul(result.pvalue, Sub(One, result.pvalue)),
                                    Len(null_stats)))
        /\ (result.std = Zero) <=> Eq(result.pvalue, One)

\* the method names of the registry, and those that are minima of p-values
RegisteredNames == { "fisher", "pearson", "mudholkar_george", "stouffer",
                     "tippett", "edgington", "edgington_sym", "simes" }
MinTypeNames == { "tippett", "simes" }

\* C13: with two or more results, a registered name selects the unweighted
\* formula without weights and the weighted formula with weights; tippett and
\* simes with weights raise ValueError; a method neither registered nor
\* callable raises ValueError; a callable is used as given.
C13_MethodResolution ==
    (pc = "done" /\ Len(ctrs) >= 2) =>
        IF method \in RegisteredNames
        THEN IF weights = NoWeights THEN statistic = <<method, "normal">>
             ELSE IF method \in MinTypeNames
             THEN error = "ValueError" /\ statistic = None /\ RNG = 0
             ELSE statistic = <<method, "weighted">>
        ELSE IF method = UserStatistic
        THEN /\ statistic = <<method, "callable">>
             /\ (error = "none" /\ alternative = "less") =>
                  orig_stat = ExpDotLn(weights, [i \in 1..Len(ctrs) |->
                                          Div(ctrs[i].p, ctrs[i].q)])
        ELSE error = "ValueError" /\ statistic = None /\ RNG = 0

\* two results combined by a min-type method with weights, which raises
C13_Witness ==
    /\ pc = "done"
    /\ Len(ctrs) = 2
    /\ method = "simes"
    /\ weights # NoWeights
    /\ error = "ValueError"

\* the arguments combine is to reject
InvalidArguments ==
    \/ alternative \notin {"less", "greater", "two-sided"}
    \/ method \notin RegisteredNames /\ method # UserStatistic
    \/ weights # NoWeights /\ method \in MinTypeNames
    \/ weights # NoWeights /\ Len(weights) # Len(ctrs)

\* C14: combine raises, and returns no value, whenever the alternative is
\* invalid, the method name unknown, weights are asked for with a min-type
\* statistic, or the number of weights differs from the number of results,
\* for any number of results, one included.
C14_InvalidArgumentsRaise ==
    (pc = "done" /\ InvalidArguments) => (error # "none" /\ result = None)

\* the keyword arguments that hand a statistic the p of dat under the name p
\* and the q under the name q, and those that hand them over exchanged
AsNamed(dat)   == [k |-> dat.k, p |-> dat.p, q |-> dat.q, w |-> dat.w]
Exchanged(dat) == [k |-> dat.k, p |-> dat.q, q |-> dat.p, w |-> dat.w]

\* C15: with alternative "greater" the statistic receives q where it names p
\* and p where it names q, the weights unchanged, for the observed vector and
\* the null matrix alike; this is what "less" computes on data with p and q
\* exchanged; the name swap applied twice restores the names.
C15_GreaterSwapsPQ ==
    (pc = "done" /\ error = "none" /\ Len(ctrs) >= 2 /\ alternative = "greater") =>
        /\ orig_stat = evaluate(statistic, Exchanged(data_orig(ctrs, weights)))
        /\ orig_stat = apply_statistics(statistic,
                                        Exchanged(data_orig(ctrs, weights)), "less")
        /\ \A c \in 1..n_samples :
              /\ data_null[c].w = weights
              /\ null_stats[c] = evaluate(statistic, Exchanged(data_null[c]))
              /\ null_stats[c] = apply_statistics(statistic,
                                                  Exchanged(data_null[c]), "less")
        /\ \A arg \in {"p", "q", "w"} : flip_pq(flip_pq(arg)) = arg
        /\ flip_pq("p") = "q" /\ flip_pq("q") = "p" /\ flip_pq("w") = "w"

\* "greater" on results whose statistic differs from the one "less" gives,
\* for the observed vector and for a null column
C15_Witness ==
    /\ pc = "done" /\ error = "none" /\ Len(ctrs) >= 2
    /\ alternative = "greater"
    /\ weights # NoWeights
    /\ orig_stat # evaluate(statistic, AsNamed(data_orig(ctrs, weights)))
    /\ \E c \in 1..n_samples :
          null_stats[c] # evaluate(statistic, AsNamed(data_null[c]))

\* C16: with alternative "two-sided" the observed statistic and every null
\* statistic is the minimum of the "less" value and the "greater" value on the
\* same column, and the p-value is counted_p of these minima, not doubled.
C16_TwoSidedMinimum ==
    (pc = "done" /\ error = "none" /\ Len(ctrs) >= 2 /\ alternative = "two-sided") =>
        /\ orig_stat = Minimum(evaluate(statistic, AsNamed(data_orig(ctrs, weights))),
                               evaluate(statistic, Exchanged(data_orig(ctrs, weights))))
        /\ Len(null_stats) = n_samples
        /\ \A c \in 1..n_samples :
              null_stats[c] = Minimum(evaluate(statistic, AsNamed(data_null[c])),
                                      evaluate(statistic, Exchanged(data_null[c])))
        /\ result.pvalue = counted_p(orig_stat, null_stats)

\* "two-sided" where the "greater" value is the smaller one for the observed
\* vector and the "less" value the smaller one for a null column
C16_Witness ==
    /\ pc = "done" /\ error = "none" /\ Len(ctrs) >= 2
    /\ alternative = "two-sided"
    /\ Lt(evaluate(statistic, Exchanged(data_orig(ctrs, weights))),
          evaluate(statistic, AsNamed(data_orig(ctrs, weights))))
    /\ \E c \in 1..n_samples :
          Lt(evaluate(statistic, AsNamed(data_null[c])),
             evaluate(statistic, Exchanged(data_null[c])))

\* two statistics of the same value (NaN taken as equal to NaN)
SameValue(x, y) == (x.nan /\ y.nan) \/ Eq(x, y)

\* dat with the p-value of test i raised to v
Raised_p(dat, i, v) == DataOf([dat.p EXCEPT ![i] = v], dat.w)

\* C17: every named statistic is non-decreasing in each test's p (q being the
\* complement of p), and counted_p is non-decreasing in the observed
\* statistic: with the null sample fixed, raising one p-value never lowers
\* the combined p-value.
C17_Monotone ==
    (pc = "done" /\ alternative = "less") =>
        /\ \A i \in 1..data.k : \A v \in PValues :
              Gt(v, data.p[i]) =>
                  LET r == apply_and_count(statistic, Raised_p(data, i, v),
                                           data_null, alternative)
                  IN  /\ Ge(r.orig_stat, orig_stat)
                      /\ Ge(r.result.pvalue, result.pvalue)
        /\ \A c \in 1..Len(null_stats) :
              Ge(null_stats[c], orig_stat) =>
                  Ge(counted_p(null_stats[c], null_stats), result.pvalue)

\* a raised p-value that raises both the statistic and the combined p-value
C17_Witness ==
    /\ pc = "done" /\ alternative = "less" /\ data.k = MaxCtrs
    /\ \E i \in 1..data.k : \E v \in PValues :
          /\ Gt(v, data.p[i])
          /\ LET r == apply_and_count(statistic, Raised_p(data, i, v),
                                      data_null, alternative)
             IN  Gt(r.orig_stat, orig_stat) /\ Gt(r.result.pvalue, result.pvalue)

\* dat with the tests put in the order f
Permuted(dat, f) ==
    [k |-> dat.k, p |-> [i \in 1..dat.k |-> dat.p[f[i]]],
     q |-> [i \in 1..dat.k |-> dat.q[f[i]]],
     w |-> IF dat.w = NoWeights THEN NoWeights ELSE [i \in 1..dat.k |-> dat.w[f[i]]]]

\* C18: the value of every named statistic, weighted or not, is the same
\* under a consistent permutation of the tests in p, q and w, so the observed
\* statistic, the null statistics and with them the combined p-value do not
\* depend on the order of the test results.
C18_OrderIndependent ==
    pc = "done" =>
        \A f \in Bijections(1..data.k) :
            LET r == apply_and_count(statistic, Permuted(data, f),
                                     [c \in 1..Len(data_null) |->
                                         Permuted(data_null[c], f)],
                                     alternative)
            IN  /\ SameValue(r.orig_stat, orig_stat)
                /\ \A c \in 1..Len(data_null) :
                      SameValue(r.null_stats[c], null_stats[c])
                /\ r.result = result

\* tests with different p-values and different weights, and a null column with
\* different draws, so that a permutation changes the data
C18_Witness ==
    /\ pc = "done" /\ data.k = MaxCtrs
    /\ statistic[2] = "weighted"
    /\ ~Eq(data.p[1], data.p[2])
    /\ data.w[1] # data.w[2]
    /\ \E c \in 1..Len(data_null) : ~Eq(data_null[c].p[1], data_null[c].p[2])

Unweighted(dat) == [k |-> dat.k, p |-> dat.p, q |-> dat.q, w |-> NoWeights]

EqualWeights(w) == w # NoWeights /\ \A i, j \in 1..Len(w) : w[i] = w[j]

\* C19: for every method that has a weighted form, all-equal weights give the
\* same combined p-value as no weights: the weighted statistic ranks the
\* observed value among the null values as the unweighted one does.
C19_EqualWeightsNeutral ==
    (pc = "done" /\ statistic[2] = "weighted" /\ EqualWeights(weights)) =>
        LET r == apply_and_count(<<statistic[1], "normal">>, Unweighted(data),
                                 [c \in 1..Len(data_null) |->
                                     Unweighted(data_null[c])],
                                 alternative)
        IN  /\ r.result = result
            /\ \A c \in 1..Len(null_stats) :
                  Ge(orig_stat, null_stats[c])
                      <=> Ge(r.orig_stat, r.null_stats[c])

\* equal weights with a weighted statistic whose value differs from the
\* unweighted one, on an observed vector that lies between the null columns
C19_Witness ==
    /\ pc = "done" /\ statistic[2] = "weighted" /\ EqualWeights(weights)
    /\ data.k = MaxCtrs
    /\ ~SameValue(orig_stat, apply_statistics(<<statistic[1], "normal">>,
                                              Unweighted(data), alternative))
    /\ Gt(result.pvalue, Num(1, Len(null_stats) + 1, 0))

\* the calls made on RNG before the i-th test of ctrs is sampled
CallsBefore(i) ==
    SumInt([j \in 1..(i - 1) |-> sample_calls(ctrs[j].nulldist, sampling_method)])

\* the null sample of every test is what the generator of the call gives in
\* the state that the sampling of the tests before it in ctrs leaves it in
SampledInTurn ==
    (error = "none" /\ Len(ctrs) # 1) =>
        \A i \in 1..Len(ctrs) :
            \E mem \in [1..n_samples -> Unwritten] :
                [c \in 1..n_samples |-> data_null[c].p[i]]
                  = sample_from(ctrs[i].nulldist, n_samples, sampling_method,
                                advanced(earlier.RNG, CallsBefore(i)), None, mem).array

\* C20: combine samples the tests one after the other in the order of ctrs,
\* each from the generator passed as RNG and from nothing else; so a second
\* call with the same arguments and a generator in the same state raises or
\* returns the same (pvalue, std) and leaves its generator in the same state.
C20_Reproducible ==
    (pc = "done" /\ earlier.RNG # None) =>
        /\ result = earlier.result
        /\ error = earlier.error
        /\ generator = earlier.left
        /\ SampledInTurn

C20_Witness ==
    /\ pc = "done" /\ earlier.RNG # None /\ error = "none"
    /\ Len(ctrs) = MaxCtrs /\ sampling_method = "proportional"
    /\ \E i \in 1..Len(ctrs) : ~continuous(ctrs[i].nulldist)
    /\ \E i \in 1..Len(ctrs) : continuous(ctrs[i].nulldist)
    /\ generator # earlier.RNG
    /\ result = earlier.result

\* both continuous, or both discrete with the same support values
SameContent(a, b) ==
    IF continuous(a) \/ continuous(b) THEN continuous(a) /\ continuous(b)
    ELSE Len(a) = Len(b) /\ \A i \in 1..Len(a) : Eq(a[i], b[i])

\* C21: a == b holds exactly when both distributions are continuous or both
\* are discrete with the same support values, and b == a gives the same answer.
C21_EqualityByContent ==
    pc = "done" =>
        /\ earlier = SameContent(self.ps, other.ps)
        /\ result = earlier

\* C22: asked for a two-sided sub-test, every factory raises an error and
\* calls no constructor of a test result, whatever the sample.
C22_TwoSidedRejected ==
    (pc = "done" /\ lower(alternative) = "two-sided") =>
        (error # "none" /\ result = None)

\* the conditions of LogPDist on its arguments: as many probabilities as
\* log-p values, the last log-p value within 1e-5 of 0, the probabilities
\* summing to 1, the log-p values (the last one read as 0) ascending and
\* equally spaced
LogPConditions ==
    LET k     == Len(logps)
        steps == np_diff(SetLast(logps, Zero))
    IN  /\ k = Len(logprobs)
        /\ k > 0
        /\ Lt(Abs(logps[k]), Num(0, 1, E5))
        /\ Le(Abs(Sub(SumSeq(logprobs), One)), Num(0, 1, Tol * k))
        /\ \A i \in 1..(k - 1) : Ge(steps[i], Zero)
        /\ \A i, j \in 1..(k - 1) : ~RatioExceeds(steps[i], steps[j])

\* C23: LogPDist raises ValueError unless its conditions hold; when it
\* constructs, the stored last log-p value is exactly 0.
C23_LogPDistValidates ==
    pc = "done" =>
        /\ (Len(logps) > 0 /\ ~LogPConditions) => error = "ValueError"
        /\ error = "none" => self.logps[Len(self.logps)] = Zero

\* a product lies on a grid from the sum of the operands' smallest log-p
\* values up to 0 and has total mass 1
OnProductGrid(prod, a, b) ==
    /\ Eq(prod.logps[1], Add(a.logps[1], b.logps[1]))
    /\ Eq(prod.logps[Len(prod.logps)], Zero)
    /\ Eq(SumSeq(prod.probs), One)

\* C24: the product of LogPDist objects does not depend on the order or the
\* grouping of the operands: A*B == B*A and (A*B)*C == A*(B*C); a product
\* lies on a grid from the sum of the smallest log-p values up to 0 with total
\* mass 1; multiplication by 1 returns the distribution unchanged.
C24_ProductIndependentOfOrder ==
    pc = "done" =>
        /\ error = "none"
        /\ result.commutes
        /\ result.associates
        /\ OnProductGrid(result.ab, self, other)
        /\ OnProductGrid(result.ab_c, result.ab, third)
        /\ result.a1.logps = self.logps /\ result.a1.probs = self.probs

\* the visited support values whose slice covers slot t (0-based)
Covering(sl, t) == { j \in 1..Len(sl) : sl[j][1] <= t /\ t < sl[j][2] }

DiscreteProportional ==
    pc = "done" /\ sampling_method = "proportional" /\ ~continuous(self.ps)

\* C25: proportional sampling of a discrete distribution, for every size and
\* every visiting order of the support values, raises nothing (the assertion
\* round(end) == size holds); the slices it assigns start at 0, each begins
\* where the previous one ended, and the last ends at size; every slot of the
\* output is covered by exactly one slice and holds that slice's value.
C25_EachSlotWrittenOnce ==
    DiscreteProportional =>
        /\ error = "none"
        /\ LET sl == result.slices
               k  == Len(sl)
           IN  /\ k = Len(self.ps)
               /\ sl[1][1] = 0
               /\ \A j \in 1..k : sl[j][1] <= sl[j][2]
               /\ \A j \in 1..(k - 1) : sl[j][2] = sl[j + 1][1]
               /\ sl[k][2] = n_samples
               /\ \A t \in 0..(n_samples - 1) :
                     /\ Cardinality(Covering(sl, t)) = 1
                     /\ \A j \in Covering(sl, t) :
                           result.allocated[t + 1] = result.combos[j][1]

\* a distribution of two or more values is visited out of ascending order, a
\* boundary falls halfway between two slots and one value gets no slot
C25_Witness ==
    /\ DiscreteProportional /\ error = "none"
    /\ Len(result.combos) >= 2
    /\ Lt(result.combos[2][1], result.combos[1][1])
    /\ \E j \in 1..Len(result.combos) :
          LET e == RunEnd(result.combos, j, n_samples)
          IN  2 * (e.n % e.d) = e.d
    /\ \E j \in 1..Len(result.slices) : result.slices[j][1] = result.slices[j][2]

\* the number of slots of array that hold the value v
Occurrences(array, v) == Cardinality({ i \in 1..Len(array) : Eq(array[i], v) })

\* the probability mass a distribution gives to the value v
MassOf(ps, v) ==
    SumSeq([i \in 1..Len(ps) |-> IF Eq(ps[i], v) THEN probs(ps)[i] ELSE Zero])

\* how far the number of occurrences of v in array is from mass * size
Excess(ps, array, v) ==
    Abs(Sub(Num(Occurrences(array, v), 1, 0), MulInt(MassOf(ps, v), Len(array))))

\* C26: in a proportional sample of size n from a discrete distribution every
\* support value occurs a number of times that differs from its mass * n by at
\* most 1, whatever the visiting order; the final shuffle keeps the number of
\* occurrences of every value.
C26_CountsWithinOne ==
    (DiscreteProportional /\ error = "none") =>
        /\ Len(result.array) = n_samples
        /\ \A i \in 1..Len(self.ps) :
              /\ Le(Excess(self.ps, result.array, self.ps[i]), One)
              /\ Occurrences(result.array, self.ps[i])
                   = Occurrences(result.allocated, self.ps[i])
        /\ \A i \in 1..n_samples : In(result.array[i], self.ps)

\* the values are visited in another order than the stored one, and one of
\* them occurs exactly one time more than its mass * n
C26_Witness ==
    /\ DiscreteProportional /\ error = "none"
    /\ result.combos # zipped(self.ps)
    /\ \E i \in 1..Len(self.ps) :
          /\ Occurrences(result.array, self.ps[i]) >= 2
          /\ Eq(Excess(self.ps, result.array, self.ps[i]), One)

\* C27: proportional sampling of the continuous distribution with size n
\* returns a permutation of the points (2i+1)/(2n), i = 0..n-1: in ascending
\* order the first is 1/(2n), the last 1 - 1/(2n), neighbours are 1/n apart,
\* and every point lies strictly between 0 and 1; stochastic sampling of the
\* continuous distribution returns values 1 - u with 0 <= u < 1, which lie in
\* (0,1].
C27_ContinuousSamples ==
    (pc = "done" /\ continuous(self.ps) /\ sampling_method \in { "proportional", "stochastic" }) =>
        /\ error = "none"
        /\ Len(result.array) = n_samples
        /\ sampling_method = "proportional" =>
              LET points == Sort(result.array)
                  n == n_samples
              IN  /\ \A i \in 0..(n - 1) : Eq(points[i + 1], Num(2 * i + 1, 2 * n, 0))
                  /\ Eq(points[1], Num(1, 2 * n, 0))
                  /\ Eq(points[n], Sub(One, Num(1, 2 * n, 0)))
                  /\ \A i \in 1..(n - 1) : Eq(Sub(points[i + 1], points[i]), Num(1, n, 0))
                  /\ \A i \in 1..n : Gt(points[i], Zero) /\ Lt(points[i], One)
        /\ sampling_method = "stochastic" =>
              \A i \in 1..n_samples :
                 /\ Gt(result.array[i], Zero) /\ Le(result.array[i], One)
                 /\ Ge(Sub(One, result.array[i]), Zero)
                 /\ Lt(Sub(One, result.array[i]), One)

\* a proportional sample of three points comes back out of ascending order
C27_Witness ==
    /\ pc = "done" /\ continuous(self.ps) /\ sampling_method = "proportional"
    /\ n_samples >= 3
    /\ Gt(result.array[1], result.array[2])

\* the names among p and q a statistic reads under an alternative: those it
\* declares for "less", the swapped ones for "greater", both for "two-sided"
NamesRead(stat, alt) ==
    LET declared == parameters(stat) \cap {"p", "q"}
        swapped  == { IF x = "p" THEN "q" ELSE "p" : x \in declared }
    IN  IF alt = "less" THEN declared
        ELSE IF alt = "greater" THEN swapped
        ELSE declared \cup swapped

\* C28: for every named statistic and valid alternative the null matrices
\* combine builds are exactly the names among p and q the statistic reads
\* under that alternative, so that no lookup fails and no unneeded matrix is
\* sampled; when both are built they come from sample_both, one draw per
\* test, every q being the complement of the p in the same place.
C28_NullMatricesAsRequired ==
    (pc = "done" /\ Len(ctrs) # 1 /\ method # UserStatistic) =>
        /\ error # "KeyError"
        /\ error = "none" =>
              /\ DOMAIN data_null \cap {"p", "q"} = NamesRead(statistic, alternative)
              /\ data.read \cap {"p", "q"} = NamesRead(statistic, alternative)
              /\ RNG = SumInt([i \in 1..Len(ctrs) |->
                                  sample_calls(ctrs[i].nulldist, sampling_method)])
              /\ {"p", "q"} \subseteq DOMAIN data_null =>
                    /\ data.sampler = "sample_both"
                    /\ \A i \in 1..Len(ctrs) : \A c \in 1..n_samples :
                          data_null.q[i][c]
                            = complement(ctrs[i].nulldist, data_null.p[i][c])
              /\ ~({"p", "q"} \subseteq DOMAIN data_null) => data.sampler = "sample"

\* a statistic that declares p alone is combined two-sidedly, so that both
\* matrices are built, from a discrete and a continuous null distribution
C28_Witness ==
    /\ pc = "done" /\ Len(ctrs) # 1 /\ error = "none"
    /\ method = "fisher" /\ alternative = "two-sided"
    /\ DOMAIN data_null = {"p", "q"}
    /\ \E i, j \in 1..Len(ctrs) :
          continuous(ctrs[i].nulldist) /\ ~continuous(ctrs[j].nulldist)

\* the same numbers in the same order
SameElements(a, b) == Len(a) = Len(b) /\ \A i \in 1..Len(a) : Eq(a[i], b[i])

\* C29: constructing a PDist leaves the collection of support values the
\* caller passed in, list or array, with the same elements in the same order
\* (the same is stated of CTR and of the log-p values of LogPDist).
C29_CallerCollectionUnchanged ==
    (pc # "call" /\ error = "none") => SameElements(caller_ps, all_ps.vals)

\* C30: the loop of boschloo_exact that unifies p values closer than atol
\* ends, whatever ascending list containing the observed p it starts from; it
\* keeps the smallest value and leaves every value at least atol above the
\* one before it; the constructor then does not reject the observed p as not
\* being in all_ps.
C30_UnifiedAndAccepted ==
    pc = "done" =>
        /\ Eq(all_ps.vals[1], caller_ps[1])
        /\ \A j \in 2..Len(all_ps.vals) :
              Ge(Sub(all_ps.vals[j], all_ps.vals[j - 1]), Num(0, 1, atol))
        /\ ~result.not_in_all_ps

\* the loop ends and the constructor is called
C30_LoopEnds == <>(pc = "done")

====
